---------------------------- MODULE Spec2Model ----------------------------
(***************************************************************************)
(* A model of nnet3/nnet-analyze.cc: the region partitioner                *)
(* (ComputationVariables), the access classifier                           *)
(* (ComputeCommandAttributes), the access-history builders                 *)
(* (ComputeVariableAccesses, ComputeMatrixAccesses) and the verifier       *)
(* (ComputationChecker).                                                   *)
(*                                                                         *)
(* Every std::vector of the source is a sequence; element i of the source  *)
(* (0-based) is At(v, i).  A fatal error (KALDI_ERR, a failed KALDI_ASSERT)*)
(* is a non-empty message string.                                          *)
(***************************************************************************)
EXTENDS Integers, Sequences, FiniteSets, TLC

VARIABLES
  computation,   \* the NnetComputation being compiled / analysed
  nnet,          \* the Nnet: components (capabilities, dims) and nodes
  check_rewrite, \* CheckComputationOptions::check_rewrite (config_)
  pc,            \* position: compiling, or the next statement of Check()
  a_,            \* the Analyzer object of the ComputationChecker
  err,           \* "" or the message of the fatal error that ended the run
  computation_checker_warned_unused_input,  \* the file-static flag
  ca,            \* a CommandAttributes object handed to RecordAccessForSubmatrix
  process,       \* the process so far: checkers constructed, warnings
                 \* logged, the static flag as the last checker found it
  query          \* the last call of a query function and what it returned

vars == <<computation, nnet, check_rewrite, pc, a_, err,
          computation_checker_warned_unused_input, ca, process, query>>

-----------------------------------------------------------------------------
(* Bounds of the model. *)

\* rows of every buffer
NumRows == 3
\* columns of every buffer of the pipeline and classifier specifications
NumCols == 2
\* instructions of a program of the pipeline specification
MaxCommands == 4
\* columns of every buffer of the partition specification
MaxCols == 3
\* non-null views of the partition specification
MaxViews == 3
\* instructions of a program of the classifier specification
MaxClassified == 1
\* RecordAccessForSubmatrix calls of the partition specification
MaxRecords == 2
\* instructions of a program of the query specification
MaxQueried == 3
\* instructions of a program of the bounds specification
MaxChecked == 1
\* instructions of a program of the process specification
MaxProcessed == 3
\* ComputationChecker objects one process constructs
MaxCheckers == 2
\* instructions of a program of the undefined-use specification
MaxUndefined == 4

-----------------------------------------------------------------------------
(* std::vector helpers. *)

At(v, i) == v[i + 1]

Size(v) == Len(v)

Range(v) == {v[i] : i \in DOMAIN v}

Back(v) == v[Len(v)]

RECURSIVE SortedSeqOf(_)
SortedSeqOf(S) ==
  IF S = {} THEN <<>>
  ELSE LET m == CHOOSE x \in S : \A y \in S : x <= y
       IN  <<m>> \o SortedSeqOf(S \ {m})

\* SortAndUniq (util/stl-utils.h): std::sort, then std::unique + erase.
SortAndUniq(v) == SortedSeqOf(Range(v))

\* std::lower_bound(first, v.end(), val) on positions: the first position
\* p >= first with v[p] >= val, or Len(v) + 1 (the end iterator).
LowerBound(v, first, val) ==
  LET S == {p \in first..Len(v) : v[p] >= val}
  IN  IF S = {} THEN Len(v) + 1
      ELSE CHOOSE p \in S : \A q \in S : p <= q

\* std::binary_search on a sorted vector.
BinarySearch(v, val) ==
  LET p == LowerBound(v, 1, val)
  IN  p <= Len(v) /\ v[p] = val

\* std::count
Count(v, val) == Cardinality({i \in DOMAIN v : v[i] = val})

-----------------------------------------------------------------------------
(* NnetComputation: the tables the analysis reads. *)

MatrixInfo(r, c) == [num_rows |-> r, num_cols |-> c]

SubMatrixInfo(m, ro, nr, co, nc) ==
  [matrix_index |-> m, row_offset |-> ro, num_rows |-> nr,
   col_offset |-> co, num_cols |-> nc]

NullMatrix == MatrixInfo(0, 0)

NullSubMatrix == SubMatrixInfo(0, 0, 0, 0, 0)

\* NnetComputation::IsWholeMatrix (nnet-computation.cc, not in this file):
\* the view's row and column ranges equal the buffer's full extent.
IsWholeMatrix(c, submatrix_index) ==
  LET s == At(c.submatrices, submatrix_index)
      m == At(c.matrices, s.matrix_index)
  IN  /\ s.row_offset = 0 /\ s.col_offset = 0
      /\ s.num_rows = m.num_rows /\ s.num_cols = m.num_cols

-----------------------------------------------------------------------------
(* ComputationVariables. *)

NewComputationVariables ==
  [failed |-> "",
   split_points_ |-> <<>>,
   matrix_to_variable_index_ |-> <<>>,
   num_variables_ |-> 0,
   variable_ranges_ |-> <<>>,
   full_column_range_ |-> <<>>,
   variable_to_matrix_ |-> <<>>,
   submatrix_to_matrix_ |-> <<>>,
   submatrix_is_whole_matrix_ |-> <<>>]

\* lines 33-40: every view pushes its column offset and column end.
RECURSIVE PushSplitPoints(_, _, _)
PushSplitPoints(c, submatrix_index, split_points) ==
  IF submatrix_index >= Size(c.submatrices) THEN split_points
  ELSE LET s == At(c.submatrices, submatrix_index)
       IN  PushSplitPoints(c, submatrix_index + 1,
             [split_points EXCEPT ![s.matrix_index + 1] =
                 @ \o <<s.col_offset, s.col_offset + s.num_cols>>])

\* lines 47-55: the running sum of the buffers' variable counts.
RECURSIVE MatrixToVariableIndex(_, _, _)
MatrixToVariableIndex(split_points, matrix_index, acc) ==
  IF matrix_index >= Size(split_points) THEN acc
  ELSE MatrixToVariableIndex(split_points, matrix_index + 1,
         Append(acc, Back(acc) + (Size(At(split_points, matrix_index)) - 1)))

\* lines 41-45: SortAndUniq of every buffer's list (not the null buffer's).
SortSplitPoints(pushed) ==
  [m \in 1..Len(pushed) |-> IF m = 1 THEN pushed[m] ELSE SortAndUniq(pushed[m])]

\* lines 44-56, given the sorted lists
SetSplitPoints(this, split) ==
  IF \E m \in 2..Len(split) : Size(split[m]) < 2
    THEN [this EXCEPT !.failed = "split_points_[matrix_index].size() >= 2"]
  ELSE [this EXCEPT
          !.split_points_ = split,
          !.matrix_to_variable_index_ = MatrixToVariableIndex(split, 1, <<0, 0>>),
          !.num_variables_ = Back(MatrixToVariableIndex(split, 1, <<0, 0>>))]

\* lines 25-57
ComputeSplitPoints(this, c) ==
  IF At(c.submatrices, 0).num_rows # 0
    THEN [this EXCEPT !.failed = "submatrices[0].num_rows == 0"]
  ELSE SetSplitPoints(this,
         SortSplitPoints(
           PushSplitPoints(c, 1, [m \in 1..Size(c.matrices) |-> <<>>])))

\* lines 70-95, one view: its variable range and its full-row flag, or the
\* assertion that fails.
VariableRangeOf(this, c, submatrix_index) ==
  LET s == At(c.submatrices, submatrix_index)
      matrix_index == s.matrix_index
      start_dim == s.col_offset
      end_dim == start_dim + s.num_cols
      split == At(this.split_points_, matrix_index)
      iter1 == LowerBound(split, 1, start_dim)
      iter2 == LowerBound(split, iter1, end_dim)
      matrix_offset == At(this.matrix_to_variable_index_, matrix_index)
      start_variable_index == matrix_offset + (iter1 - 1)
      end_variable_index == matrix_offset + (iter2 - 1)
  IN  IF iter1 > Len(split) \/ split[iter1] # start_dim
        THEN [failed |-> "*iter == start_dim"]
      ELSE IF iter2 > Len(split) \/ split[iter2] # end_dim
        THEN [failed |-> "*iter == end_dim"]
      ELSE IF ~(end_variable_index > start_variable_index)
        THEN [failed |-> "end_variable_index > start_variable_index"]
      ELSE [failed |-> "",
            first |-> start_variable_index,
            second |-> end_variable_index,
            full |-> (s.row_offset = 0 /\
                      s.num_rows = At(c.matrices, matrix_index).num_rows)]

\* lines 59-96.  (Here and below, an object whose `failed` is set is passed
\* through: the failed assertion has already ended Init.)
ComputeVariableRanges(this, c) ==
  LET num_submatrices == Size(c.submatrices)
      r == [s \in 1..(num_submatrices - 1) |-> VariableRangeOf(this, c, s)]
      bad == {s \in 1..(num_submatrices - 1) : r[s].failed # ""}
  IN  IF this.failed # "" THEN this
      ELSE IF bad # {}
        THEN [this EXCEPT !.failed =
                r[CHOOSE s \in bad : \A t \in bad : s <= t].failed]
      ELSE [this EXCEPT
              !.variable_ranges_ =
                 [i \in 1..num_submatrices |->
                    IF i = 1 THEN [first |-> 0, second |-> 0]
                    ELSE [first |-> r[i - 1].first, second |-> r[i - 1].second]],
              !.full_column_range_ =
                 [i \in 1..num_submatrices |->
                    IF i = 1 THEN FALSE ELSE r[i - 1].full]]

\* lines 98-107
ComputeSubmatrixInfo(this, c) ==
  LET num_submatrices == Size(c.submatrices)
  IN  IF this.failed # "" THEN this ELSE
      [this EXCEPT
         !.submatrix_to_matrix_ =
            [i \in 1..num_submatrices |->
               IF i = 1 THEN 0 ELSE c.submatrices[i].matrix_index],
         !.submatrix_is_whole_matrix_ =
            [i \in 1..num_submatrices |->
               IF i = 1 THEN FALSE ELSE IsWholeMatrix(c, i - 1)]]

\* lines 114-129: the views in index order; the first one covering a
\* variable sets its buffer, a later one must agree.
RECURSIVE VariableToMatrixLoop(_, _, _, _)
VariableToMatrixLoop(this, c, submatrix_index, v2m) ==
  IF v2m.failed # "" \/ submatrix_index >= Size(this.variable_ranges_) THEN v2m
  ELSE LET matrix_index == At(c.submatrices, submatrix_index).matrix_index
           rng == At(this.variable_ranges_, submatrix_index)
           covered == {i \in 1..Len(v2m.map) :
                          rng.first <= i - 1 /\ i - 1 < rng.second}
       IN  VariableToMatrixLoop(this, c, submatrix_index + 1,
             IF \E i \in covered : v2m.map[i] # -1 /\ v2m.map[i] # matrix_index
               THEN [v2m EXCEPT !.failed =
                       "variable_to_matrix_[variable_index] == matrix_index"]
             ELSE [v2m EXCEPT !.map =
                     [i \in 1..Len(v2m.map) |->
                        IF i \in covered /\ v2m.map[i] = -1
                          THEN matrix_index ELSE v2m.map[i]]])

\* lines 130-132, after the loop
CoveredAllVariables(this, v2m) ==
  IF v2m.failed # "" THEN [this EXCEPT !.failed = v2m.failed]
  ELSE IF Count(v2m.map, -1) # 0
    THEN [this EXCEPT !.failed = "count(variable_to_matrix_, -1) == 0"]
  ELSE [this EXCEPT !.variable_to_matrix_ = v2m.map]

\* lines 109-133
ComputeVariableToMatrix(this, c) ==
  IF this.failed # "" THEN this
  ELSE CoveredAllVariables(this,
         VariableToMatrixLoop(this, c, 1,
           [failed |-> "", map |-> [i \in 1..this.num_variables_ |-> -1]]))

\* ComputationVariables::Init, lines 135-142.  A failed assertion ends it.
ComputationVariablesInit(this, c) ==
  IF ~(this.split_points_ = <<>>)
    THEN [this EXCEPT !.failed = "split_points_.empty()"]
  ELSE ComputeSubmatrixInfo(
         ComputeVariableToMatrix(
           ComputeVariableRanges(
             ComputeSplitPoints(this, c), c), c), c)

NumVariables(this) == this.num_variables_

GetMatrixForVariable(this, variable) == At(this.variable_to_matrix_, variable)

\* lines 149-157
AppendVariablesForSubmatrix(this, submatrix_index, variable_indexes) ==
  LET start == At(this.variable_ranges_, submatrix_index).first
      end   == At(this.variable_ranges_, submatrix_index).second
  IN  variable_indexes \o [i \in 1..(end - start) |-> start + i - 1]

\* lines 159-169
AppendVariablesForMatrix(this, matrix_index, variable_indexes) ==
  LET start == At(this.matrix_to_variable_index_, matrix_index)
      end   == At(this.matrix_to_variable_index_, matrix_index + 1)
  IN  variable_indexes \o [i \in 1..(end - start) |-> start + i - 1]

-----------------------------------------------------------------------------
(* Nnet (nnet-nnet.h, not in this file): what the analysis asks of it. *)

GetComponent(n, c) == At(n.components, c)

IsComponentNode(n, node) == At(n.nodes, node).node_type = "kComponent"

IsInputNode(n, node) == At(n.nodes, node).node_type = "kInput"

IsOutputNode(n, node) == At(n.nodes, node).node_type = "kDescriptor"

GetComponentForNode(n, node) == At(n.components, At(n.nodes, node).component)

NumComponents(n) == Size(n.components)

NumNodes(n) == Size(n.nodes)

\* `properties & flag`
HasProperty(component, flag) == flag \in component.properties

-----------------------------------------------------------------------------
(* The access classifier. *)

AccessTypes == {"kReadAccess", "kWriteAccess", "kReadWriteAccess"}

NewCommandAttributes ==
  [variables_read |-> <<>>, variables_written |-> <<>>,
   submatrices_read |-> <<>>, submatrices_written |-> <<>>,
   matrices_read |-> <<>>, matrices_written |-> <<>>,
   has_side_effects |-> FALSE]

\* A partial-row write that forgets to count as a read of the variable.
RecordAccessNoPartialRowRead(this, submatrix_index, access_type, attr) ==
  IF submatrix_index = 0 THEN attr
  ELSE
  LET matrix_index == At(this.submatrix_to_matrix_, submatrix_index)
  IN  CASE access_type = "kReadAccess" ->
             [attr EXCEPT
                !.variables_read =
                   AppendVariablesForSubmatrix(this, submatrix_index, @),
                !.matrices_read = Append(@, matrix_index),
                !.submatrices_read = Append(@, submatrix_index)]
        [] access_type = "kWriteAccess" ->
             [attr EXCEPT
                !.variables_written =
                   AppendVariablesForSubmatrix(this, submatrix_index, @),
                !.submatrices_written = Append(@, submatrix_index),
                !.matrices_written = Append(@, matrix_index)]
        [] access_type = "kReadWriteAccess" ->
             [attr EXCEPT
                !.variables_written =
                   AppendVariablesForSubmatrix(this, submatrix_index, @),
                !.variables_read =
                   AppendVariablesForSubmatrix(this, submatrix_index, @),
                !.submatrices_written = Append(@, submatrix_index),
                !.submatrices_read = Append(@, submatrix_index),
                !.matrices_written = Append(@, matrix_index),
                !.matrices_read = Append(@, matrix_index)]

\* ComputationVariables::RecordAccessForSubmatrix, lines 171-213.
RecordAccessForSubmatrix(this, submatrix_index, access_type, attr) ==
  IF submatrix_index = 0 THEN attr
  ELSE
  LET matrix_index == At(this.submatrix_to_matrix_, submatrix_index)
      is_whole_matrix == At(this.submatrix_is_whole_matrix_, submatrix_index)
  IN  CASE access_type = "kReadAccess" ->
             [attr EXCEPT
                !.variables_read =
                   AppendVariablesForSubmatrix(this, submatrix_index, @),
                !.matrices_read = Append(@, matrix_index),
                !.submatrices_read = Append(@, submatrix_index)]
        [] access_type = "kWriteAccess" ->
             [attr EXCEPT
                !.variables_written =
                   AppendVariablesForSubmatrix(this, submatrix_index, @),
                !.submatrices_written = Append(@, submatrix_index),
                !.matrices_written = Append(@, matrix_index),
                !.variables_read =
                   IF ~At(this.full_column_range_, submatrix_index)
                     THEN AppendVariablesForSubmatrix(this, submatrix_index, @)
                     ELSE @,
                !.matrices_read =
                   IF ~is_whole_matrix THEN Append(@, matrix_index) ELSE @]
        [] access_type = "kReadWriteAccess" ->
             [attr EXCEPT
                !.variables_written =
                   AppendVariablesForSubmatrix(this, submatrix_index, @),
                !.variables_read =
                   AppendVariablesForSubmatrix(this, submatrix_index, @),
                !.submatrices_written = Append(@, submatrix_index),
                !.submatrices_read = Append(@, submatrix_index),
                !.matrices_written = Append(@, matrix_index),
                !.matrices_read = Append(@, matrix_index)]

\* lines 229-235: the views named by the pair list, in order, skipping -1 and
\* an immediate repeat of the view just pushed.
RECURSIVE IndexesMultiLoop(_, _, _, _)
IndexesMultiLoop(indexes_multi, i, cur_submatrix_index, submatrix_indexes) ==
  IF i > Len(indexes_multi) THEN submatrix_indexes
  ELSE LET submatrix_index == indexes_multi[i][1]
       IN  IF submatrix_index # -1 /\ submatrix_index # cur_submatrix_index
             THEN IndexesMultiLoop(indexes_multi, i + 1, submatrix_index,
                                   Append(submatrix_indexes, submatrix_index))
             ELSE IndexesMultiLoop(indexes_multi, i + 1, cur_submatrix_index,
                                   submatrix_indexes)

\* IndexesMultiToSubmatrixIndexes, lines 222-237.
IndexesMultiToSubmatrixIndexes(indexes_multi) ==
  SortAndUniq(IndexesMultiLoop(indexes_multi, 1, -1, <<>>))

-----------------------------------------------------------------------------
(* NnetComputation::Command: an opcode and six operands (default -1). *)

Command(type, a1, a2, a3, a4, a5, a6) ==
  [command_type |-> type, arg1 |-> a1, arg2 |-> a2, arg3 |-> a3,
   arg4 |-> a4, arg5 |-> a5, arg6 |-> a6]

Call(submatrix_index, access_type) ==
  [submatrix_index |-> submatrix_index, access_type |-> access_type]

\* the same access on every view of a list, in order (lines 312-314)
CallEach(submatrix_indexes, access_type) ==
  [i \in 1..Len(submatrix_indexes) |-> Call(submatrix_indexes[i], access_type)]

\* lines 264-267: how Propagate touches its out-view
PropagateOutAccess(component) ==
  IF HasProperty(component, "kPropagateAdds")
    THEN "kReadWriteAccess" ELSE "kWriteAccess"

\* A Backprop that always accumulates into its in-deriv-view.
BackpropInDerivAlwaysAdds(component) == "kReadWriteAccess"

\* lines 276-279: how Backprop touches its in-deriv-view
BackpropInDerivAccess(component) ==
  IF HasProperty(component, "kBackpropAdds")
    THEN "kReadWriteAccess" ELSE "kWriteAccess"

\* A CopyRows that ignores the -1 entries of its index list.
CopyRowsDestAlwaysWrite(indexes) == "kWriteAccess"

\* lines 300-303: how CopyRows touches its destination
CopyRowsDestAccess(indexes) ==
  IF Count(indexes, -1) > 0 THEN "kReadWriteAccess" ELSE "kWriteAccess"

\* A scatter that overwrites its destination views.
ToRowsMultiCallsWrite(src, indexes_multi) ==
  <<Call(src, "kReadAccess")>> \o
  CallEach(IndexesMultiToSubmatrixIndexes(indexes_multi), "kWriteAccess")

\* lines 331-339: the calls of kAddToRowsMulti and kCopyToRowsMulti
ToRowsMultiCalls(src, indexes_multi) ==
  <<Call(src, "kReadAccess")>> \o
  CallEach(IndexesMultiToSubmatrixIndexes(indexes_multi), "kReadWriteAccess")

\* lines 253-349, the switch: the RecordAccessForSubmatrix calls the command
\* makes, in the order it makes them.
RecordedCalls(n, c, cmd) ==
  LET t == cmd.command_type
  IN  CASE t \in {"kAllocMatrixZeroed", "kAllocMatrixUndefined",
                  "kDeallocMatrix", "kNoOperation", "kNoOperationMarker"} -> <<>>
        [] t = "kPropagate" ->
             <<Call(cmd.arg3, "kReadAccess"),
               Call(cmd.arg4, PropagateOutAccess(GetComponent(n, cmd.arg1)))>>
        [] t = "kStoreStats" -> <<Call(cmd.arg2, "kReadAccess")>>
        [] t = "kBackprop" ->
             <<Call(cmd.arg3, "kReadAccess"),
               Call(cmd.arg4, "kReadAccess"),
               Call(cmd.arg5, "kReadAccess"),
               Call(cmd.arg6,
                    BackpropInDerivAccess(GetComponentForNode(n, cmd.arg1)))>>
        [] t = "kMatrixCopy" ->
             <<Call(cmd.arg1, "kWriteAccess"), Call(cmd.arg2, "kReadAccess")>>
        [] t \in {"kMatrixAdd", "kAddRows", "kAddRowRanges"} ->
             <<Call(cmd.arg1, "kReadWriteAccess"), Call(cmd.arg2, "kReadAccess")>>
        [] t = "kCopyRows" ->
             <<Call(cmd.arg1, CopyRowsDestAccess(At(c.indexes, cmd.arg3))),
               Call(cmd.arg2, "kReadAccess")>>
        [] t = "kAddRowsMulti" ->
             <<Call(cmd.arg1, "kReadWriteAccess")>> \o
             CallEach(IndexesMultiToSubmatrixIndexes(At(c.indexes_multi, cmd.arg2)),
                      "kReadAccess")
        [] t = "kCopyRowsMulti" ->
             <<Call(cmd.arg1, "kWriteAccess")>> \o
             CallEach(IndexesMultiToSubmatrixIndexes(At(c.indexes_multi, cmd.arg2)),
                      "kReadAccess")
        [] t \in {"kAddToRowsMulti", "kCopyToRowsMulti"} ->
             ToRowsMultiCalls(cmd.arg1, At(c.indexes_multi, cmd.arg2))

\* the calls applied to the command's attributes, in order
RECURSIVE RecordCalls(_, _, _, _)
RecordCalls(this, calls, i, attr) ==
  IF i > Len(calls) THEN attr
  ELSE RecordCalls(this, calls, i + 1,
         RecordAccessForSubmatrix(this, calls[i].submatrix_index,
                                  calls[i].access_type, attr))

\* An allocation that counts as a write whether or not it zero-fills.
AllocAttributesAnyAlloc(this, cmd) ==
  IF cmd.command_type \in {"kAllocMatrixZeroed", "kAllocMatrixUndefined"}
    THEN [NewCommandAttributes EXCEPT
            !.variables_written = AppendVariablesForMatrix(this, cmd.arg1, @),
            !.matrices_written = Append(@, cmd.arg1)]
    ELSE NewCommandAttributes

\* lines 254-257: what kAllocMatrixZeroed writes before any call
AllocAttributes(this, cmd) ==
  IF cmd.command_type = "kAllocMatrixZeroed"
    THEN [NewCommandAttributes EXCEPT
            !.variables_written = AppendVariablesForMatrix(this, cmd.arg1, @),
            !.matrices_written = Append(@, cmd.arg1)]
    ELSE NewCommandAttributes

\* A classifier that flags every Backprop, whatever its component.
SetSideEffectsEveryBackprop(n, cmd, attr) ==
  IF cmd.command_type = "kBackprop"
    THEN [attr EXCEPT !.has_side_effects = TRUE]
    ELSE attr

\* lines 280-281
SetSideEffects(n, cmd, attr) ==
  IF cmd.command_type = "kBackprop" /\
     HasProperty(GetComponentForNode(n, cmd.arg1), "kUpdatableComponent")
    THEN [attr EXCEPT !.has_side_effects = TRUE]
    ELSE attr

\* lines 353-358
SortAndUniqAll(attr) ==
  [variables_read |-> SortAndUniq(attr.variables_read),
   variables_written |-> SortAndUniq(attr.variables_written),
   submatrices_read |-> SortAndUniq(attr.submatrices_read),
   submatrices_written |-> SortAndUniq(attr.submatrices_written),
   matrices_read |-> SortAndUniq(attr.matrices_read),
   matrices_written |-> SortAndUniq(attr.matrices_written),
   has_side_effects |-> attr.has_side_effects]

\* lines 251-358, one command
CommandAttributesOf(n, c, this, cmd) ==
  SortAndUniqAll(
    SetSideEffects(n, cmd,
      RecordCalls(this, RecordedCalls(n, c, cmd), 1, AllocAttributes(this, cmd))))

\* ComputeCommandAttributes, lines 242-360.
ComputeCommandAttributes(n, c, this) ==
  [i \in 1..Size(c.commands) |-> CommandAttributesOf(n, c, this, c.commands[i])]

-----------------------------------------------------------------------------
(* The access-history builders. *)

Access(command_index, access_type) ==
  [command_index |-> command_index, access_type |-> access_type]

\* A touch that counts as a pure Write whenever the index is written.
AccessOfWrittenFirst(read, written, c, index) ==
  IF BinarySearch(written, index) THEN Access(c, "kWriteAccess")
  ELSE Access(c, "kReadAccess")

\* lines 387-403 and 435-451: the kind of one touch, from the sorted read and
\* written vectors of the command.
AccessOf(read, written, c, index) ==
  LET is_read == BinarySearch(read, index)
      is_written == IF ~is_read THEN TRUE ELSE BinarySearch(written, index)
  IN  IF is_read /\ is_written THEN Access(c, "kReadWriteAccess")
      ELSE IF is_read THEN Access(c, "kReadAccess")
      ELSE Access(c, "kWriteAccess")

\* A builder that puts the newest Access of a variable first.
PushVariableAccessesNewestFirst(variable_accesses, attr, c) ==
  LET all_variables == SortAndUniq(attr.variables_read \o attr.variables_written)
  IN  [v \in 1..Len(variable_accesses) |->
         IF BinarySearch(all_variables, v - 1)
           THEN <<AccessOf(attr.variables_read,
                           attr.variables_written, c, v - 1)>>
                  \o variable_accesses[v]
           ELSE variable_accesses[v]]

\* lines 370-405: the commands in order; each appends one Access to every
\* variable of its merged, sorted and deduplicated read and written vectors.
PushVariableAccesses(variable_accesses, attr, c) ==
  LET all_variables == SortAndUniq(attr.variables_read \o attr.variables_written)
  IN  [v \in 1..Len(variable_accesses) |->
         IF BinarySearch(all_variables, v - 1)
           THEN Append(variable_accesses[v],
                       AccessOf(attr.variables_read,
                                attr.variables_written, c, v - 1))
           ELSE variable_accesses[v]]

RECURSIVE VariableAccessesLoop(_, _, _)
VariableAccessesLoop(command_attributes, c, variable_accesses) ==
  IF c >= Size(command_attributes) THEN variable_accesses
  ELSE VariableAccessesLoop(command_attributes, c + 1,
         PushVariableAccesses(variable_accesses, At(command_attributes, c), c))

\* ComputeVariableAccesses, lines 362-406.
ComputeVariableAccesses(variables, command_attributes) ==
  VariableAccessesLoop(command_attributes, 0,
                       [v \in 1..NumVariables(variables) |-> <<>>])

NewMatrixAccesses ==
  [allocate_command |-> -1, deallocate_command |-> -1, accesses |-> <<>>,
   is_input |-> FALSE, is_output |-> FALSE]

\* A bookkeeping that lets a later allocation or deallocation of a buffer
\* replace the earlier one.
SetAllocateDeallocateLast(r, command, ci, pushed) ==
  IF command.command_type \in {"kAllocMatrixZeroed", "kAllocMatrixUndefined"}
    THEN [r EXCEPT !.matrix_accesses =
            [pushed EXCEPT ![command.arg1 + 1].allocate_command = ci]]
  ELSE IF command.command_type = "kDeallocMatrix"
    THEN [r EXCEPT !.matrix_accesses =
            [pushed EXCEPT ![command.arg1 + 1].deallocate_command = ci]]
  ELSE [r EXCEPT !.matrix_accesses = pushed]

\* lines 418-472: the commands in order; each appends its Accesses, then
\* records itself as the allocation or deallocation of its first operand.
\* lines 454-471: the command as the allocation or deallocation of arg1
SetAllocateDeallocate(r, command, ci, pushed) ==
  LET matrix_index == command.arg1
  IN  IF command.command_type \in {"kAllocMatrixZeroed", "kAllocMatrixUndefined"}
        THEN IF At(pushed, matrix_index).allocate_command # -1
               THEN [r EXCEPT !.failed = "Matrix initialized twice."]
               ELSE [r EXCEPT !.matrix_accesses =
                       [pushed EXCEPT ![matrix_index + 1].allocate_command = ci]]
      ELSE IF command.command_type = "kDeallocMatrix"
        THEN IF At(pushed, matrix_index).deallocate_command # -1
               THEN [r EXCEPT !.failed = "Matrix destroyed twice."]
               ELSE [r EXCEPT !.matrix_accesses =
                       [pushed EXCEPT ![matrix_index + 1].deallocate_command = ci]]
      ELSE [r EXCEPT !.matrix_accesses = pushed]

\* lines 419-452: the Accesses command ci appends
PushMatrixAccesses(matrix_accesses, attr, ci) ==
  LET all_matrices == SortAndUniq(attr.matrices_read \o attr.matrices_written)
  IN  [m \in 1..Len(matrix_accesses) |->
         IF BinarySearch(all_matrices, m - 1)
           THEN [matrix_accesses[m] EXCEPT !.accesses =
                   Append(@, AccessOf(attr.matrices_read,
                                      attr.matrices_written, ci, m - 1))]
           ELSE matrix_accesses[m]]

RECURSIVE MatrixAccessesLoop(_, _, _, _)
MatrixAccessesLoop(c, command_attributes, ci, r) ==
  IF r.failed # "" \/ ci >= Size(command_attributes) THEN r
  ELSE MatrixAccessesLoop(c, command_attributes, ci + 1,
         SetAllocateDeallocate(r, At(c.commands, ci), ci,
           PushMatrixAccesses(r.matrix_accesses, At(command_attributes, ci), ci)))

\* lines 473-504: the is_input and is_output flags from input_output_info, a
\* map from node to (value buffer, derivative buffer); its iteration order
\* does not change the flags, and a flag set twice fails an assertion.
InputEntries(n, c, m) ==
  {e \in c.input_output_info :
     \/ IsInputNode(n, e.node) /\ e.value = m
     \/ ~IsInputNode(n, e.node) /\ e.deriv # 0 /\ e.deriv = m}

OutputEntries(n, c, m) ==
  {e \in c.input_output_info :
     \/ IsInputNode(n, e.node) /\ e.deriv # 0 /\ e.deriv = m
     \/ ~IsInputNode(n, e.node) /\ e.value = m}

SetInputOutput(n, c, r) ==
  LET num_matrices == Size(c.matrices)
  IN  IF \E e \in c.input_output_info :
             ~(e.value > 0 /\ e.value < num_matrices)
        THEN [r EXCEPT !.failed =
                "value_matrix_index > 0 && value_matrix_index < num_matrices"]
      ELSE IF \E e \in c.input_output_info :
             ~IsInputNode(n, e.node) /\ ~IsOutputNode(n, e.node)
        THEN [r EXCEPT !.failed = "nnet.IsOutputNode(node_index)"]
      ELSE IF \E m \in 0..(num_matrices - 1) :
             Cardinality(InputEntries(n, c, m)) > 1
        THEN [r EXCEPT !.failed = "!matrix_accesses[index].is_input"]
      ELSE IF \E m \in 0..(num_matrices - 1) :
             Cardinality(OutputEntries(n, c, m)) > 1
        THEN [r EXCEPT !.failed = "!matrix_accesses[index].is_output"]
      ELSE [r EXCEPT !.matrix_accesses =
              [m \in 1..num_matrices |->
                 [r.matrix_accesses[m] EXCEPT
                    !.is_input = InputEntries(n, c, m - 1) # {},
                    !.is_output = OutputEntries(n, c, m - 1) # {}]]]

\* ComputeMatrixAccesses, lines 408-505: [failed, matrix_accesses].
ComputeMatrixAccesses(n, c, variables, command_attributes) ==
  SetInputOutput(n, c,
    MatrixAccessesLoop(c, command_attributes, 0,
      [failed |-> "",
       matrix_accesses |-> [m \in 1..Size(c.matrices) |-> NewMatrixAccesses]]))

\* Analyzer::Init, lines 1093-1099.  failed is the message of the assertion
\* or error that ended it, "" when the analysis was built.
NewAnalyzer ==
  [failed |-> "", variables |-> NewComputationVariables,
   command_attributes |-> <<>>, variable_accesses |-> <<>>,
   matrix_accesses |-> <<>>]

\* lines 1097-1098, given the earlier tables
AnalyzerSetMatrixAccesses(an, m) ==
  IF m.failed # "" THEN [an EXCEPT !.failed = m.failed]
  ELSE [an EXCEPT !.matrix_accesses = m.matrix_accesses]

\* lines 1096-1098, given the attributes
AnalyzerSetAccesses(an, n, c, command_attributes) ==
  AnalyzerSetMatrixAccesses(
    [an EXCEPT !.command_attributes = command_attributes,
               !.variable_accesses =
                  ComputeVariableAccesses(an.variables, command_attributes)],
    ComputeMatrixAccesses(n, c, an.variables, command_attributes))

\* lines 1095-1098, given the variables
AnalyzerSetVariables(an, n, c, variables) ==
  IF variables.failed # ""
    THEN [an EXCEPT !.failed = variables.failed, !.variables = variables]
  ELSE AnalyzerSetAccesses([an EXCEPT !.variables = variables], n, c,
                           ComputeCommandAttributes(n, c, variables))

AnalyzerInit(an, n, c) ==
  AnalyzerSetVariables(an, n, c, ComputationVariablesInit(an.variables, c))

-----------------------------------------------------------------------------
(* ComputationChecker. *)

\* `properties && kUpdatableComponent` (line 732): the logical and of two
\* integers, true when both are non-zero; the flag constant is non-zero.
LogicalAndUpdatable(component) == component.properties # {}

LexLess(p, q) == p[1] < q[1] \/ (p[1] = q[1] /\ p[2] < q[2])

\* std::sort of a vector of pairs (duplicates kept).
RECURSIVE SortPairs(_)
SortPairs(v) ==
  IF v = <<>> THEN <<>>
  ELSE LET i == CHOOSE j \in DOMAIN v : \A k \in DOMAIN v : ~LexLess(v[k], v[j])
       IN  <<v[i]>> \o SortPairs(SubSeq(v, 1, i - 1) \o SubSeq(v, i + 1, Len(v)))

\* A duplicate check that compares neighbours of the unsorted pair list.
HasDuplicatePairUnsorted(pairs) ==
  \E i \in 1..(Len(pairs) - 1) : pairs[i] = pairs[i + 1] /\ pairs[i][1] # -1

\* lines 830-844: an element of the sorted copy equal to its successor, other
\* than the (-1, -1) marker.
HasDuplicatePair(pairs) ==
  LET pairs_copy == SortPairs(pairs)
  IN  \E i \in 1..(Len(pairs_copy) - 1) :
        pairs_copy[i] = pairs_copy[i + 1] /\ pairs_copy[i][1] # -1

\* A pairs loop that lets a pair name the command's own view.
RECURSIVE CheckPairsNoSelf(_, _, _, _)
CheckPairsNoSelf(c, cmd, pairs, i) ==
  IF i > Len(pairs) THEN ""
  ELSE
  LET submatrix_index == pairs[i][1]
      row_index == pairs[i][2]
      num_submatrices == Size(c.submatrices)
      msg ==
        IF submatrix_index = -1
          THEN IF row_index # -1
                 THEN "Expected -1 row index if submatrix index is -1"
                 ELSE ""
        ELSE IF submatrix_index < 1 \/ submatrix_index >= num_submatrices
          THEN "Submatrix index out of range in indexes_multi"
        ELSE IF row_index < 0 \/
                row_index >= At(c.submatrices, submatrix_index).num_rows
          THEN "Row index out of range in indexes_multi"
        ELSE IF At(c.submatrices, submatrix_index).num_cols #
                At(c.submatrices, cmd.arg1).num_cols
          THEN "Mismatching dimension in *-multi command"
        ELSE ""
  IN  IF msg # "" THEN msg ELSE CheckPairsNoSelf(c, cmd, pairs, i + 1)

\* lines 808-824: the first error among the pairs, in order.
RECURSIVE CheckPairs(_, _, _, _)
CheckPairs(c, cmd, pairs, i) ==
  IF i > Len(pairs) THEN ""
  ELSE
  LET submatrix_index == pairs[i][1]
      row_index == pairs[i][2]
      num_submatrices == Size(c.submatrices)
      msg ==
        IF submatrix_index = -1
          THEN IF row_index # -1
                 THEN "Expected -1 row index if submatrix index is -1"
                 ELSE ""
        ELSE IF submatrix_index < 1 \/ submatrix_index >= num_submatrices
          THEN "Submatrix index out of range in indexes_multi"
        ELSE IF row_index < 0 \/
                row_index >= At(c.submatrices, submatrix_index).num_rows
          THEN "Row index out of range in indexes_multi"
        ELSE IF submatrix_index = cmd.arg1
          THEN "Copying from self in *-multi command."
        ELSE IF At(c.submatrices, submatrix_index).num_cols #
                At(c.submatrices, cmd.arg1).num_cols
          THEN "Mismatching dimension in *-multi command"
        ELSE ""
  IN  IF msg # "" THEN msg ELSE CheckPairs(c, cmd, pairs, i + 1)

\* std::max_element of a non-empty vector.
MaxElement(v) == CHOOSE x \in Range(v) : \A y \in Range(v) : y <= x

\* lines 662-877, one command: "" or the message of its first error.
CheckCommandIndexes(n, c, cmd) ==
  LET t == cmd.command_type
      num_matrices == Size(c.matrices)
      num_submatrices == Size(c.submatrices)
      sub(i) == At(c.submatrices, i)
  IN
  CASE t \in {"kAllocMatrixZeroed", "kAllocMatrixUndefined", "kDeallocMatrix"} ->
         IF cmd.arg1 < 1 \/ cmd.arg1 >= num_matrices
           THEN "matrix index out of range." ELSE ""
    [] t = "kPropagate" ->
         IF cmd.arg1 < 0 \/ cmd.arg1 >= NumComponents(n)
           THEN "Component index out of range"
         ELSE
         LET component == GetComponent(n, cmd.arg1)
             simple == HasProperty(component, "kSimpleComponent")
         IN  IF cmd.arg2 < 0 \/ cmd.arg2 > c.component_precomputed_indexes_size
               THEN "Precomputed-indexes index out of range"
             ELSE IF cmd.arg2 # 0 /\ simple
               THEN "Precomputed-indexes index nonzero for simple component"
             ELSE IF \/ cmd.arg3 < 0 \/ cmd.arg3 >= num_submatrices
                     \/ (cmd.arg3 = 0 /\ ~simple)
                     \/ cmd.arg4 < 1 \/ cmd.arg4 >= num_submatrices
               THEN "Sub-matrix indexes out of range."
             ELSE IF sub(cmd.arg3).num_cols # component.InputDim
               THEN "Input-dim mismatch."
             ELSE IF sub(cmd.arg4).num_cols # component.OutputDim
               THEN "Input-dim mismatch."
             ELSE IF simple /\ sub(cmd.arg3).num_rows # sub(cmd.arg4).num_rows
               THEN "Num-rows mismatch for simple component."
             ELSE IF ~HasProperty(component, "kPropagateInPlace") /\
                     cmd.arg3 = cmd.arg4
               THEN "In-place propagation not supported for this component"
             ELSE ""
    [] t = "kStoreStats" ->
         IF cmd.arg1 < 0 \/ cmd.arg1 >= NumComponents(n)
           THEN "Component index out of range"
         ELSE
         LET component == GetComponent(n, cmd.arg1)
         IN  IF ~HasProperty(component, "kStoresStats")
               THEN "StoreStats called on component that does not do it."
             ELSE IF cmd.arg2 < 1 \/ cmd.arg2 >= num_submatrices
               THEN "Invalid sub-matrix index in StoreStats"
             ELSE IF sub(cmd.arg2).num_cols # component.OutputDim
               THEN "Dimension mismatch in StoreStats"
             ELSE ""
    [] t = "kBackprop" ->
         IF cmd.arg1 < 0 \/ cmd.arg1 >= NumNodes(n) \/ ~IsComponentNode(n, cmd.arg1)
           THEN "Node index in backprop invalid or out of range"
         ELSE
         LET component == GetComponentForNode(n, cmd.arg1)
             simple == HasProperty(component, "kSimpleComponent")
         IN  IF cmd.arg2 < 0 \/ cmd.arg2 > c.component_precomputed_indexes_size
               THEN "Precomputed-indexes index out of range"
             ELSE IF cmd.arg2 # 0 /\ simple
               THEN "Precomputed-indexes index nonzero for simple component"
             ELSE IF \/ cmd.arg3 < 0 \/ cmd.arg3 >= num_submatrices
                     \/ cmd.arg4 < 0 \/ cmd.arg4 >= num_submatrices
                     \/ cmd.arg5 < 1 \/ cmd.arg5 >= num_submatrices
                     \/ cmd.arg6 < 0 \/ cmd.arg6 >= num_submatrices
               THEN "Submatrix index out of range for backprop."
             ELSE IF HasProperty(component, "kBackpropNeedsInput") /\ cmd.arg3 = 0
               THEN "Backprop input needed but not supplied."
             ELSE IF HasProperty(component, "kBackpropNeedsOutput") /\ cmd.arg4 = 0
               THEN "Backprop output needed but not supplied."
             ELSE IF cmd.arg6 = 0 /\ ~LogicalAndUpdatable(component)
               THEN "Backprop is done but has no effect."
             ELSE IF cmd.arg5 = cmd.arg6 /\
                     ~HasProperty(component, "kBackpropInPlace")
               THEN "In-place backprop used where not supported."
             ELSE IF cmd.arg3 # 0 /\ sub(cmd.arg3).num_cols # component.InputDim
               THEN "Input-dim mismatch in backprop."
             ELSE IF cmd.arg4 # 0 /\ sub(cmd.arg4).num_cols # component.OutputDim
               THEN "Output-dim mismatch in backprop."
             ELSE IF cmd.arg5 # 0 /\ sub(cmd.arg5).num_cols # component.OutputDim
               THEN "Output-dim mismatch in backprop."
             ELSE IF cmd.arg6 # 0 /\ sub(cmd.arg6).num_cols # component.InputDim
               THEN "Input-dim mismatch in backprop."
             ELSE IF cmd.arg3 # 0 /\ cmd.arg6 # 0 /\
                     sub(cmd.arg3).num_rows # sub(cmd.arg6).num_rows
               THEN "Num-rows mismatch in backprop input"
             ELSE IF cmd.arg4 # 0 /\
                     sub(cmd.arg4).num_rows # sub(cmd.arg5).num_rows
               THEN "Num-rows mismatch in backprop output"
             ELSE IF simple /\ cmd.arg6 # 0 /\
                     sub(cmd.arg5).num_rows # sub(cmd.arg6).num_rows
               THEN "Num-rows mismatch in backprop input vs output."
             ELSE ""
    [] t \in {"kMatrixCopy", "kMatrixAdd"} ->
         IF \/ cmd.arg1 < 1 \/ cmd.arg1 >= num_submatrices
            \/ cmd.arg2 < 1 \/ cmd.arg2 >= num_submatrices
           THEN "Submatrix indexes out of range in matrix copy/add"
         ELSE IF \/ sub(cmd.arg1).num_rows # sub(cmd.arg2).num_rows
                 \/ sub(cmd.arg1).num_cols # sub(cmd.arg2).num_cols
           THEN "Submatrix indexes out of range in matrix copy/add"
         ELSE IF cmd.arg1 = cmd.arg2
           THEN "Adding/copying to self"
         ELSE ""
    [] t \in {"kAddRows", "kCopyRows"} ->
         IF \/ cmd.arg1 < 1 \/ cmd.arg1 >= num_submatrices
            \/ cmd.arg2 < 1 \/ cmd.arg2 >= num_submatrices
            \/ cmd.arg3 < 0 \/ cmd.arg3 >= Size(c.indexes)
           THEN "Index out of range in add-rows/copy-rows command."
         ELSE
         LET indexes == At(c.indexes, cmd.arg3)
         IN  IF Size(indexes) # sub(cmd.arg1).num_rows
               THEN "Indexes size mismatch in add-rows/copy-rows"
             ELSE IF sub(cmd.arg1).num_cols # sub(cmd.arg2).num_cols
               THEN "Dimension mismatch in add-rows/copy-rows"
             ELSE IF MaxElement(indexes) >= sub(cmd.arg2).num_rows
               THEN "Row-index out of range in add-rows/copy-rows"
             ELSE IF cmd.arg1 = cmd.arg2
               THEN "Copying to self in add-rows/copy-rows command."
             ELSE ""
    [] t \in {"kAddRowsMulti", "kCopyRowsMulti",
              "kAddToRowsMulti", "kCopyToRowsMulti"} ->
         IF \/ cmd.arg1 < 1 \/ cmd.arg1 >= num_submatrices
            \/ cmd.arg2 < 0 \/ cmd.arg2 >= Size(c.indexes_multi)
           THEN "Index out of range in *-multi command"
         ELSE
         LET pairs == At(c.indexes_multi, cmd.arg2)
             bad == CheckPairs(c, cmd, pairs, 1)
         IN  IF Size(pairs) # sub(cmd.arg1).num_rows
               THEN "Indexes dimension mismatch in *-multi command"
             ELSE IF bad # "" THEN bad
             ELSE IF t \in {"kAddToRowsMulti", "kCopyToRowsMulti"} /\
                     HasDuplicatePair(pairs)
               THEN "Duplicate element found in indexes"
             ELSE ""
    [] t = "kAddRowRanges" ->
         IF \/ cmd.arg1 < 1 \/ cmd.arg1 >= num_submatrices
            \/ cmd.arg2 < 1 \/ cmd.arg2 >= num_submatrices
            \/ cmd.arg3 < 0 \/ cmd.arg3 >= Size(c.indexes_ranges)
           THEN "Index out of range in add-row-ranges command"
         ELSE
         \* line 854 indexes the range table with arg2, the source view
         LET pairs == At(c.indexes_ranges, cmd.arg2)
             src_num_rows == sub(cmd.arg2).num_rows
         IN  IF sub(cmd.arg1).num_rows # Size(pairs)
               THEN "Num-rows mismatch in add-row-ranges command"
             ELSE IF sub(cmd.arg1).num_cols # sub(cmd.arg2).num_cols
               THEN "Dimension mismatch in add-row-ranges command"
             ELSE IF \E i \in DOMAIN pairs :
                       \/ pairs[i][2] < pairs[i][1] \/ pairs[i][1] < 0
                       \/ pairs[i][2] > src_num_rows
               THEN "Row range out of range in add-row-ranges command."
             ELSE ""
    [] t \in {"kNoOperation", "kNoOperationMarker"} -> ""

\* ComputationChecker::CheckComputationIndexes, lines 653-879: the error of
\* the first command that has one.
RECURSIVE CheckComputationIndexesFrom(_, _, _)

IndexesErrorOrNext(n, c, command_index, msg) ==
  IF msg # "" THEN [msg |-> msg, at |-> command_index]
  ELSE CheckComputationIndexesFrom(n, c, command_index + 1)

CheckComputationIndexesFrom(n, c, command_index) ==
  IF command_index >= Size(c.commands) THEN [msg |-> "", at |-> -1]
  ELSE IndexesErrorOrNext(n, c, command_index,
         CheckCommandIndexes(n, c, At(c.commands, command_index)))

CheckComputationIndexes(n, c) == CheckComputationIndexesFrom(n, c, 0)

\* lines 888-894: (num_markers, marker_location) after the first loop.
RECURSIVE CountMarkers(_, _, _)
CountMarkers(commands, c, acc) ==
  IF c >= Size(commands) THEN acc
  ELSE CountMarkers(commands, c + 1,
         IF At(commands, c).command_type = "kNoOperationMarker"
           THEN [num_markers |-> acc.num_markers + 1, marker_location |-> c]
           ELSE acc)

\* lines 898-913: the first error of the second loop.
RECURSIVE OrderLoop(_, _, _)
OrderLoop(commands, marker_location, c) ==
  IF c >= Size(commands) THEN ""
  ELSE LET command_type == At(commands, c).command_type
       IN  IF c # marker_location /\ command_type = "kNoOperationMarker"
             THEN "Found kNoOpMarker in unexpected place"
           ELSE IF c < marker_location /\ command_type = "kBackprop"
             THEN "Backprop occurs before kNoOpMarker"
           ELSE IF c > marker_location /\ command_type = "kPropagate"
             THEN "Propagate occurs after kNoOpMarker"
           ELSE IF c > marker_location /\ command_type = "kStoreStats"
             THEN "StoreStats occurs after kNoOpMarker"
           ELSE OrderLoop(commands, marker_location, c + 1)

\* An ordering check that only counts the markers.
CheckComputationOrderMarkersOnly(c) ==
  IF CountMarkers(c.commands, 0,
                  [num_markers |-> 0, marker_location |-> 0]).num_markers # 1
    THEN "Expected exactly one kNoOperationMarker marker."
    ELSE ""

\* ComputationChecker::CheckComputationOrder, lines 885-914.
CheckComputationOrder(c) ==
  LET m == CountMarkers(c.commands, 0,
                        [num_markers |-> 0, marker_location |-> 0])
  IN  IF m.num_markers # 1
        THEN "Expected exactly one kNoOperationMarker marker."
        ELSE OrderLoop(c.commands, m.marker_location, 0)

\* An allocation check that does not compare the first access with the
\* allocation.
AllocationMsgAnyOrder(accesses) ==
  IF accesses.is_input
    THEN IF accesses.allocate_command # -1
           THEN "Input matrix is initialized." ELSE ""
  ELSE IF accesses.allocate_command = -1
    THEN "Matrix is not initialized."
  ELSE IF accesses.accesses = <<>>
    THEN "Matrix is never accessed."
  ELSE ""

\* lines 605-616: the first error of the is_input branch, or ""
AllocationMsg(accesses) ==
  IF accesses.is_input
    THEN IF accesses.allocate_command # -1
           THEN "Input matrix is initialized." ELSE ""
  ELSE IF accesses.allocate_command = -1
    THEN "Matrix is not initialized."
  ELSE IF accesses.accesses = <<>>
    THEN "Matrix is never accessed."
  ELSE IF accesses.accesses[1].command_index < accesses.allocate_command
    THEN "Matrix is accessed before it is initialized"
  ELSE ""

\* lines 617-642: the first error of the is_output branch, or ""
DeallocationMsg(accesses) ==
  IF accesses.is_output
    THEN IF accesses.deallocate_command # -1
           THEN "Output matrix is destroyed." ELSE ""
  ELSE IF accesses.deallocate_command = -1
    THEN "Matrix is not destroyed."
  ELSE IF accesses.accesses = <<>>
    THEN IF accesses.is_input THEN "" ELSE "Matrix is never accessed."
  ELSE IF Back(accesses.accesses).command_index >= accesses.deallocate_command
    THEN "Matrix is accessed after it is destroyed"
  ELSE ""

\* lines 622-632: the branch that warns (once) of an input never accessed
WarnsUnusedInput(accesses) ==
  /\ ~accesses.is_output
  /\ accesses.deallocate_command # -1
  /\ accesses.accesses = <<>>
  /\ accesses.is_input

\* A check that warns of every input never accessed.
WarningsAfterEveryUnused(accesses, warned, warnings) ==
  IF WarnsUnusedInput(accesses) THEN warnings + 1 ELSE warnings

\* lines 627-631: the warnings logged once this buffer has been looked at
WarningsAfter(accesses, warned, warnings) ==
  IF WarnsUnusedInput(accesses) /\ ~warned THEN warnings + 1 ELSE warnings

\* A lifecycle check for which an input never accessed is a fatal error
\* once the process has warned of one.
RECURSIVE MatrixAccessesCheckLoopWarnedFatal(_, _, _, _)
MatrixAccessesCheckLoopWarnedFatal(matrix_accesses, matrix_index, warned, warnings) ==
  IF matrix_index >= Size(matrix_accesses)
    THEN [msg |-> "", warned |-> warned, warnings |-> warnings]
  ELSE IF AllocationMsg(At(matrix_accesses, matrix_index)) # ""
    THEN [msg |-> AllocationMsg(At(matrix_accesses, matrix_index)),
          warned |-> warned, warnings |-> warnings]
  ELSE IF DeallocationMsg(At(matrix_accesses, matrix_index)) # ""
    THEN [msg |-> DeallocationMsg(At(matrix_accesses, matrix_index)),
          warned |-> warned, warnings |-> warnings]
  ELSE IF warned /\ WarnsUnusedInput(At(matrix_accesses, matrix_index))
    THEN [msg |-> "Matrix is never accessed.",
          warned |-> warned, warnings |-> warnings]
  ELSE MatrixAccessesCheckLoopWarnedFatal(matrix_accesses, matrix_index + 1,
         warned \/ WarnsUnusedInput(At(matrix_accesses, matrix_index)),
         WarningsAfter(At(matrix_accesses, matrix_index), warned, warnings))

\* lines 603-645, the buffers in index order: [msg, warned, warnings], the
\* message of the first error, the value the warned-once flag is left with
\* and the number of warnings logged.
RECURSIVE MatrixAccessesCheckLoop(_, _, _, _)
MatrixAccessesCheckLoop(matrix_accesses, matrix_index, warned, warnings) ==
  IF matrix_index >= Size(matrix_accesses)
    THEN [msg |-> "", warned |-> warned, warnings |-> warnings]
  ELSE IF AllocationMsg(At(matrix_accesses, matrix_index)) # ""
    THEN [msg |-> AllocationMsg(At(matrix_accesses, matrix_index)),
          warned |-> warned, warnings |-> warnings]
  ELSE IF DeallocationMsg(At(matrix_accesses, matrix_index)) # ""
    THEN [msg |-> DeallocationMsg(At(matrix_accesses, matrix_index)),
          warned |-> warned, warnings |-> warnings]
  ELSE MatrixAccessesCheckLoop(matrix_accesses, matrix_index + 1,
         warned \/ WarnsUnusedInput(At(matrix_accesses, matrix_index)),
         WarningsAfter(At(matrix_accesses, matrix_index), warned, warnings))

\* ComputationChecker::CheckComputationMatrixAccesses, lines 600-646.
CheckComputationMatrixAccesses(an, warned) ==
  MatrixAccessesCheckLoop(an.matrix_accesses, 1, warned, 0)

\* An undefined-use check that only objects to a pure Read coming first.
UndefinedMsgPureReadOnly(an, v) ==
  LET accesses == At(an.variable_accesses, v)
      matrix_index == GetMatrixForVariable(an.variables, v)
      is_input == At(an.matrix_accesses, matrix_index).is_input
  IN  IF ~is_input
        THEN IF accesses = <<>> THEN "Variable is never used."
             ELSE IF accesses[1].access_type = "kReadAccess"
               THEN "Variable is read before it is written to"
             ELSE ""
        ELSE ""

\* lines 575-589, one variable.
UndefinedMsg(an, v) ==
  LET accesses == At(an.variable_accesses, v)
      matrix_index == GetMatrixForVariable(an.variables, v)
      is_input == At(an.matrix_accesses, matrix_index).is_input
  IN  IF ~is_input
        THEN IF accesses = <<>> THEN "Variable is never used."
             ELSE IF accesses[1].access_type # "kWriteAccess"
               THEN "Variable is read before it is written to"
             ELSE ""
        ELSE ""

\* ComputationChecker::CheckComputationUndefined, lines 573-590.
CheckComputationUndefined(an) ==
  LET bad == {v \in 0..(Size(an.variable_accesses) - 1) : UndefinedMsg(an, v) # ""}
  IN  IF bad = {} THEN ""
      ELSE UndefinedMsg(an, CHOOSE v \in bad : \A w \in bad : v <= w)

\* A rewrite check that only looks for unused variables.
RewriteMsgUnusedOnly(an, v) ==
  IF At(an.variable_accesses, v) = <<>> /\
     ~At(an.matrix_accesses, GetMatrixForVariable(an.variables, v)).is_input
    THEN "Variable is never used."
    ELSE ""

\* lines 540-565, one variable.
RewriteMsg(an, v) ==
  LET accesses == At(an.variable_accesses, v)
      matrix_index == GetMatrixForVariable(an.variables, v)
      num_accesses == Size(accesses)
      reads == {i \in 0..(num_accesses - 1) :
                  At(accesses, i).access_type = "kReadAccess"}
      first_pure_read ==
        IF reads = {} THEN -1
        ELSE CHOOSE i \in reads : \A j \in reads : i <= j
  IN  IF accesses = <<>> /\ ~At(an.matrix_accesses, matrix_index).is_input
        THEN "Variable is never used."
      ELSE IF first_pure_read # -1 /\
              \E i \in (first_pure_read + 1)..(num_accesses - 1) :
                 At(accesses, i).access_type # "kReadAccess"
        THEN "Variable is modified after being read"
      ELSE ""

\* ComputationChecker::CheckComputationRewrite, lines 537-567.
CheckComputationRewrite(an) ==
  LET bad == {v \in 0..(Size(an.variable_accesses) - 1) : RewriteMsg(an, v) # ""}
  IN  IF bad = {} THEN ""
      ELSE RewriteMsg(an, CHOOSE v \in bad : \A w \in bad : v <= w)

-----------------------------------------------------------------------------
(* The query functions the optimizers call on an analysis result.  Each    *)
(* gives [failed, result]: the message of a failed assertion, or "" and    *)
(* the value returned.                                                     *)

Returns(result) == [failed |-> "", result |-> result]

\* lines 935-936, 959-960 and 971-972
MatrixIndexAssert(matrix_accesses, matrix_index) ==
  matrix_index > 0 /\ matrix_index < Size(matrix_accesses)

\* MatrixIsAccessedBeforeCommand, lines 931-953.
MatrixIsAccessedBeforeCommand(matrix_accesses, matrix_index, command_index) ==
  IF ~MatrixIndexAssert(matrix_accesses, matrix_index)
    THEN [failed |-> "matrix_index > 0 && matrix_index < size", result |-> FALSE]
  ELSE
    LET access == At(matrix_accesses, matrix_index)
        first_command == At(access.accesses, 0).command_index
        second_command == At(access.accesses, 1).command_index
    IN  IF access.accesses = <<>> THEN Returns(FALSE)
        ELSE IF first_command # access.allocate_command /\
                first_command < command_index
          THEN Returns(TRUE)
        ELSE IF first_command # access.allocate_command /\
                Size(access.accesses) > 1 /\
                second_command < command_index
          THEN Returns(TRUE)
        ELSE Returns(FALSE)

\* MatrixIsAccessedAfterCommand, lines 955-965.
MatrixIsAccessedAfterCommand(matrix_accesses, matrix_index, command_index) ==
  IF ~MatrixIndexAssert(matrix_accesses, matrix_index)
    THEN [failed |-> "matrix_index > 0 && matrix_index < size", result |-> FALSE]
  ELSE
    LET access == At(matrix_accesses, matrix_index)
    IN  IF access.accesses = <<>> THEN Returns(FALSE)
        ELSE Returns(Back(access.accesses).command_index > command_index)

\* A reverse scan that looks at the latest access only.
WrittenAfterLatestOnly(accesses, iter, command_index) ==
  /\ iter >= 1
  /\ accesses[iter].command_index > command_index
  /\ accesses[iter].access_type # "kReadAccess"

\* lines 976-984: the reverse scan, iter the position (1-based) it is at
RECURSIVE WrittenAfterScan(_, _, _)
WrittenAfterScan(accesses, iter, command_index) ==
  IF iter < 1 THEN FALSE
  ELSE IF accesses[iter].command_index <= command_index THEN FALSE
  ELSE IF accesses[iter].access_type # "kReadAccess" THEN TRUE
  ELSE WrittenAfterScan(accesses, iter - 1, command_index)

\* MatrixIsWrittenToAfterCommand, lines 967-986.
MatrixIsWrittenToAfterCommand(matrix_accesses, matrix_index, command_index) ==
  IF ~MatrixIndexAssert(matrix_accesses, matrix_index)
    THEN [failed |-> "matrix_index > 0 && matrix_index < size", result |-> FALSE]
  ELSE
    LET access == At(matrix_accesses, matrix_index)
    IN  IF access.accesses = <<>> THEN Returns(FALSE)
        ELSE Returns(WrittenAfterScan(access.accesses, Len(access.accesses),
                                      command_index))

\* An answer that keeps the first write the reverse scan meets.
AnsFirstMet(access, ans) ==
  IF ans = -1 THEN access.command_index ELSE ans

\* lines 1011-1014: ans after an access later than command_index
AnsAfter(access, ans) ==
  IF access.access_type # "kReadAccess"
    THEN IF access.command_index < ans \/ ans = -1
           THEN access.command_index ELSE ans
    ELSE ans

\* lines 1005-1015: one variable's history from the latest access to the
\* earliest, riter the position (1-based) it is at
RECURSIVE FirstTimeScan(_, _, _, _)
FirstTimeScan(accesses, riter, command_index, ans) ==
  IF riter < 1 THEN ans
  ELSE IF accesses[riter].command_index <= command_index THEN ans
  ELSE FirstTimeScan(accesses, riter - 1, command_index,
                     AnsAfter(accesses[riter], ans))

\* lines 999-1017: the variables of the view, iter the position (1-based)
RECURSIVE FirstTimeLoop(_, _, _, _, _)
FirstTimeLoop(variable_accesses, variables, iter, command_index, ans) ==
  IF iter > Len(variables) THEN ans
  ELSE FirstTimeLoop(variable_accesses, variables, iter + 1, command_index,
         FirstTimeScan(At(variable_accesses, variables[iter]),
                       Len(At(variable_accesses, variables[iter])),
                       command_index, ans))

\* FirstTimeSubmatrixIsWrittenToAfterCommand, lines 988-1019.  The cast of
\* command_index to size_t makes a negative one fail the assertion.
FirstTimeSubmatrixIsWrittenToAfterCommand(analyzer, submatrix_index, command_index) ==
  IF ~(command_index >= 0 /\
       command_index < Size(analyzer.command_attributes))
    THEN [failed |-> "command_index < analyzer.command_attributes.size()",
          result |-> -1]
  ELSE Returns(
         FirstTimeLoop(analyzer.variable_accesses,
                       AppendVariablesForSubmatrix(analyzer.variables,
                                                   submatrix_index, <<>>),
                       1, command_index, -1))

-----------------------------------------------------------------------------
(* The inputs: what the upstream compiler hands to the analysis. *)

\* Two buffers of NumRows x NumCols and five views: 1 and 2 are the whole
\* buffers, 3 and 4 split buffer 1 by columns (full rows), 5 is the first
\* row of buffer 2 (a partial-row view).
TheMatrices ==
  <<NullMatrix, MatrixInfo(NumRows, NumCols), MatrixInfo(NumRows, NumCols)>>

TheSubmatrices ==
  <<NullSubMatrix,
    SubMatrixInfo(1, 0, NumRows, 0, NumCols),
    SubMatrixInfo(2, 0, NumRows, 0, NumCols),
    SubMatrixInfo(1, 0, NumRows, 0, 1),
    SubMatrixInfo(1, 0, NumRows, 1, NumCols - 1),
    SubMatrixInfo(2, 0, 1, 0, NumCols)>>

\* Row-index tables (computation.indexes), each NumRows long: 0 all rows in
\* range, 1 with one -1 ("no source"), 2 with a row out of range.
TheIndexes ==
  <<[i \in 1..NumRows |-> i - 1],
    [i \in 1..NumRows |-> IF i = 1 THEN -1 ELSE 0],
    [i \in 1..NumRows |-> IF i = 1 THEN NumRows ELSE 0]>>

\* Row-pair tables (computation.indexes_multi), each NumRows long but the
\* last: 0 distinct rows of view 2; 1 names views 5 and 2 and has a (-1,-1);
\* 2 only (-1,-1); 3 a pair repeated with a (-1,-1) in between; 4 a pair
\* repeated in every row; 5 names view 1; 6 distinct rows of view 4; 7 a
\* (-1, row); 8 is one pair long.
TheIndexesMulti ==
  <<[i \in 1..NumRows |-> <<2, i - 1>>],
    [i \in 1..NumRows |-> IF i = 1 THEN <<5, 0>>
                          ELSE IF i = 2 THEN <<-1, -1>> ELSE <<2, i - 1>>],
    [i \in 1..NumRows |-> <<-1, -1>>],
    [i \in 1..NumRows |-> IF i = 2 THEN <<-1, -1>> ELSE <<2, 0>>],
    [i \in 1..NumRows |-> <<2, 0>>],
    [i \in 1..NumRows |-> IF i = 1 THEN <<1, 0>> ELSE <<-1, -1>>],
    [i \in 1..NumRows |-> <<4, i - 1>>],
    [i \in 1..NumRows |-> IF i = 1 THEN <<-1, 0>> ELSE <<-1, -1>>],
    <<<<2, 0>>>>>>

\* Row-range tables (computation.indexes_ranges), one per view index so that
\* line 854's lookup by a view index stays inside the table.
TheIndexesRanges ==
  <<[i \in 1..NumRows |-> <<0, i>>],
    [i \in 1..NumRows |-> <<0, i>>],
    [i \in 1..NumRows |-> <<i, 0>>],
    [i \in 1..NumRows |-> <<0, i>>],
    [i \in 1..NumRows |-> <<0, NumRows + 1>>],
    <<<<0, 1>>>>>>

\* no input or output association (the value before the compiler sets it)
IONone == {}

\* buffer 1 is both the input's and the output's value; buffer 2 is internal
IOFirst == {[node |-> 0, value |-> 1, deriv |-> 0],
            [node |-> 1, value |-> 1, deriv |-> 0]}

\* both buffers are inputs and outputs (value and derivative of one node)
IOBoth == {[node |-> 0, value |-> 1, deriv |-> 1],
           [node |-> 1, value |-> 2, deriv |-> 2]}

\* buffer 1 is an input and an output, buffer 2 an output only
IOOutSecond == {[node |-> 0, value |-> 1, deriv |-> 2],
                [node |-> 1, value |-> 1, deriv |-> 0]}

InputOutputInfos == {IOFirst, IOBoth, IOOutSecond}

NewComputation(matrices, submatrices) ==
  [matrices |-> matrices,
   submatrices |-> submatrices,
   commands |-> <<>>,
   indexes |-> TheIndexes,
   indexes_multi |-> TheIndexesMulti,
   indexes_ranges |-> TheIndexesRanges,
   component_precomputed_indexes_size |-> 1,
   input_output_info |-> IONone]

\* Node 0 is an input node, node 1 an output node, node 2 the component node
\* of component 0, whose dimensions are those of a whole buffer.
TheNnet(properties) ==
  [components |-> <<[properties |-> properties,
                     InputDim |-> NumCols, OutputDim |-> NumCols]>>,
   nodes |-> <<[node_type |-> "kInput", component |-> -1],
               [node_type |-> "kDescriptor", component |-> -1],
               [node_type |-> "kComponent", component |-> 0]>>]

PipelineProperties == {"kSimpleComponent", "kStoresStats", "kBackpropAdds"}

\* The instructions the compiler of the pipeline specification emits.
PipelineCommands ==
  {Command("kAllocMatrixZeroed", 2, -1, -1, -1, -1, -1),
   Command("kAllocMatrixUndefined", 2, -1, -1, -1, -1, -1),
   Command("kDeallocMatrix", 2, -1, -1, -1, -1, -1),
   Command("kNoOperationMarker", -1, -1, -1, -1, -1, -1),
   Command("kMatrixCopy", 2, 1, -1, -1, -1, -1),
   Command("kMatrixAdd", 1, 2, -1, -1, -1, -1),
   Command("kMatrixCopy", 3, 4, -1, -1, -1, -1),
   Command("kPropagate", 0, 0, 1, 2, -1, -1),
   Command("kStoreStats", 0, 2, -1, -1, -1, -1),
   Command("kBackprop", 2, 0, 1, 2, 2, 1)}

\* The capability flags of the component in the classifier specification.
ClassifyProperties ==
  {{"kSimpleComponent"},
   {"kSimpleComponent", "kPropagateAdds", "kPropagateInPlace"},
   {"kSimpleComponent", "kBackpropAdds", "kUpdatableComponent"},
   {"kPropagateAdds", "kBackpropAdds", "kBackpropInPlace", "kStoresStats"}}

\* The instructions the compiler of the classifier specification emits:
\* every opcode, on whole, column-split and partial-row views.
ClassifyCommands ==
  {Command("kNoOperationMarker", -1, -1, -1, -1, -1, -1),
   Command("kNoOperation", -1, -1, -1, -1, -1, -1),
   Command("kAllocMatrixZeroed", 1, -1, -1, -1, -1, -1),
   Command("kAllocMatrixZeroed", 2, -1, -1, -1, -1, -1),
   Command("kAllocMatrixUndefined", 1, -1, -1, -1, -1, -1),
   Command("kDeallocMatrix", 1, -1, -1, -1, -1, -1),
   Command("kMatrixCopy", 2, 1, -1, -1, -1, -1),
   Command("kMatrixCopy", 5, 3, -1, -1, -1, -1),
   Command("kMatrixAdd", 3, 4, -1, -1, -1, -1),
   Command("kAddRows", 2, 1, 1, -1, -1, -1),
   Command("kAddRowRanges", 1, 2, 0, -1, -1, -1),
   Command("kStoreStats", 0, 2, -1, -1, -1, -1)}
  \cup {Command("kCopyRows", v[1], v[2], i, -1, -1, -1) :
          v \in {<<2, 1>>, <<3, 4>>, <<5, 1>>, <<1, 3>>, <<2, 5>>},
          i \in 0..(Size(TheIndexes) - 1)}
  \cup {Command("kPropagate", 0, 0, v[1], v[2], -1, -1) :
          v \in {<<1, 2>>, <<0, 2>>, <<3, 4>>, <<1, 5>>, <<2, 2>>}}
  \cup {Command("kBackprop", 2, 0, v[1], v[2], v[3], v[4]) :
          v \in {<<1, 2, 2, 1>>, <<0, 0, 2, 1>>, <<1, 2, 2, 0>>,
                 <<3, 0, 4, 5>>, <<1, 0, 2, 2>>}}
  \cup {Command(t, s, i, -1, -1, -1, -1) :
          t \in {"kAddRowsMulti", "kCopyRowsMulti",
                 "kAddToRowsMulti", "kCopyToRowsMulti"},
          s \in {1, 3},
          i \in 0..(Size(TheIndexesMulti) - 1)}

\* The instructions the compiler of the query specification emits: buffer
\* 1 is zero-filled, written, accumulated into and written by halves (view 3
\* from view 4), buffer 2 accumulated into, buffer 1 deallocated.
QueryCommands ==
  {Command("kAllocMatrixZeroed", 1, -1, -1, -1, -1, -1),
   Command("kMatrixCopy", 1, 2, -1, -1, -1, -1),
   Command("kMatrixAdd", 1, 2, -1, -1, -1, -1),
   Command("kMatrixAdd", 2, 1, -1, -1, -1, -1),
   Command("kMatrixCopy", 3, 4, -1, -1, -1, -1),
   Command("kDeallocMatrix", 1, -1, -1, -1, -1, -1)}

\* The capability flags of the component in the bounds specification: those
\* of the classifier specification, and a component with no capability.
IndexProperties == ClassifyProperties \cup {{}}

\* The instructions the compiler of the bounds specification emits: every
\* opcode with operands in range and with each operand out of range (a
\* buffer 0 or 3, a view 0 or 6, a component 1, a node 0 or 3, a table index
\* -1 or the table's size), in place and not.
IndexCommands ==
  {Command("kNoOperationMarker", -1, -1, -1, -1, -1, -1),
   Command("kNoOperation", -1, -1, -1, -1, -1, -1)}
  \cup {Command(t, m, -1, -1, -1, -1, -1) :
          t \in {"kAllocMatrixZeroed", "kAllocMatrixUndefined", "kDeallocMatrix"},
          m \in {0, 1, Size(TheMatrices)}}
  \cup {Command("kPropagate", v[1], v[2], v[3], v[4], -1, -1) :
          v \in {<<0, 0, 1, 2>>, <<1, 0, 1, 2>>, <<-1, 0, 1, 2>>,
                 <<0, 1, 1, 2>>, <<0, 2, 1, 2>>, <<0, -1, 1, 2>>,
                 <<0, 0, 6, 2>>, <<0, 0, 1, 6>>, <<0, 0, 1, 0>>,
                 <<0, 0, 0, 2>>, <<0, 0, 2, 2>>, <<0, 1, 2, 2>>}}
  \cup {Command("kStoreStats", v[1], v[2], -1, -1, -1, -1) :
          v \in {<<0, 2>>, <<1, 2>>, <<0, 6>>, <<0, 0>>}}
  \cup {Command("kBackprop", v[1], v[2], v[3], v[4], v[5], v[6]) :
          v \in {<<2, 0, 1, 2, 2, 1>>, <<0, 0, 1, 2, 2, 1>>,
                 <<3, 0, 1, 2, 2, 1>>, <<2, 1, 1, 2, 2, 1>>,
                 <<2, 2, 1, 2, 2, 1>>, <<2, -1, 1, 2, 2, 1>>,
                 <<2, 0, 6, 2, 2, 1>>, <<2, 0, 1, 6, 2, 1>>,
                 <<2, 0, 1, 2, 6, 1>>, <<2, 0, 1, 2, 2, 6>>,
                 <<2, 0, 1, 2, 0, 1>>, <<2, 0, 0, 0, 2, 0>>,
                 <<2, 0, 1, 2, 2, 2>>, <<2, 0, 1, 1, 1, 1>>}}
  \cup {Command(t, v[1], v[2], -1, -1, -1, -1) :
          t \in {"kMatrixCopy", "kMatrixAdd"},
          v \in {<<2, 1>>, <<3, 4>>, <<1, 1>>, <<0, 1>>, <<6, 1>>,
                 <<1, 0>>, <<1, 6>>, <<5, 2>>}}
  \cup {Command(t, v[1], v[2], v[3], -1, -1, -1) :
          t \in {"kAddRows", "kCopyRows"},
          v \in {<<2, 1, 0>>, <<2, 1, 1>>, <<2, 1, 2>>, <<1, 1, 0>>,
                 <<2, 1, Size(TheIndexes)>>, <<2, 1, -1>>,
                 <<0, 1, 0>>, <<2, 6, 0>>, <<6, 1, 0>>}}
  \cup {Command(t, s, i, -1, -1, -1, -1) :
          t \in {"kAddRowsMulti", "kCopyRowsMulti",
                 "kAddToRowsMulti", "kCopyToRowsMulti"},
          s \in {0, 1, 2, 6},
          i \in {-1, 0, 2, 5, Size(TheIndexesMulti)}}
  \cup {Command("kAddRowRanges", 2, 1, i, -1, -1, -1) :
          i \in -1..Size(TheIndexesRanges)}
  \cup {Command("kAddRowRanges", v[1], v[2], 0, -1, -1, -1) :
          v \in {<<1, 2>>, <<0, 1>>, <<6, 1>>, <<2, 0>>, <<2, 6>>, <<1, 1>>}}

\* The process specification: a network with a second input node (node 3),
\* so that both buffers can be inputs that are not outputs.
TheProcessNnet ==
  [TheNnet(PipelineProperties) EXCEPT
     !.nodes = Append(@, [node_type |-> "kInput", component |-> -1])]

\* both buffers are inputs only (the values of the two input nodes)
IOTwoInputs == {[node |-> 0, value |-> 1, deriv |-> 0],
                [node |-> 3, value |-> 2, deriv |-> 0]}

\* buffer 1 is an input and an output, buffer 2 an input only
IOInputSecond == {[node |-> 0, value |-> 1, deriv |-> 0],
                  [node |-> 1, value |-> 1, deriv |-> 2]}

\* The instructions the compiler of the process specification emits.
ProcessCommands ==
  {Command("kNoOperationMarker", -1, -1, -1, -1, -1, -1),
   Command("kDeallocMatrix", 1, -1, -1, -1, -1, -1),
   Command("kDeallocMatrix", 2, -1, -1, -1, -1, -1),
   Command("kMatrixAdd", 1, 2, -1, -1, -1, -1)}

\* The views the compiler of the partition specification may create: on
\* buffer 1 (MaxCols wide) any non-empty column range, on buffer 2 (one
\* column wide) the only one; all rows or the first row.
VarsMatrices ==
  <<NullMatrix, MatrixInfo(NumRows, MaxCols), MatrixInfo(NumRows, 1)>>

VarsSubmatrices ==
  {SubMatrixInfo(1, 0, num_rows, col_offset, num_cols) :
     num_rows \in {1, NumRows},
     col_offset \in 0..(MaxCols - 1),
     num_cols \in 1..MaxCols}
  \cup {SubMatrixInfo(2, 0, num_rows, 0, 1) : num_rows \in {1, NumRows}}

-----------------------------------------------------------------------------
(* The state machine. *)

Checks == <<"CheckComputationIndexes", "a_.Init", "CheckComputationOrder",
            "CheckComputationMatrixAccesses", "CheckComputationUndefined",
            "CheckComputationRewrite">>

\* err is the outcome of the last statement executed: its name, the message
\* of the fatal error it raised ("" when it returned) and, for the index
\* check, the command it stopped at.
NoError == [msg |-> "", at |-> -1, check |-> ""]

Fatal(msg) == [msg |-> msg, at |-> -1]

NoRecord == [n |-> 0, submatrix_index |-> 0, access_type |-> "kReadAccess",
             before |-> NewCommandAttributes, attr |-> NewCommandAttributes]

\* A process that has constructed no ComputationChecker and logged no
\* warning (KALDI_WARN) yet; warned_before is the value of the static flag
\* of line 598 when the latest checker was constructed.
NewProcess == [checkers |-> 0, warnings |-> 0, warned_before |-> FALSE]

\* No query function has been called.
NoQuery == [fn |-> "", index |-> 0, command_index |-> 0, failed |-> "",
            result |-> 0]

\* The pipeline specification starts with the compiler about to emit.
Init ==
  /\ computation = NewComputation(TheMatrices, TheSubmatrices)
  /\ nnet = TheNnet(PipelineProperties)
  /\ check_rewrite = TRUE
  /\ pc = "compile"
  /\ a_ = NewAnalyzer
  /\ err = NoError
  /\ computation_checker_warned_unused_input = FALSE
  /\ ca = NoRecord
  /\ process = NewProcess
  /\ query = NoQuery

\* The compiler emits one more instruction.
Emit(cmd, max) ==
  /\ pc = "compile"
  /\ Size(computation.commands) < max
  /\ computation' = [computation EXCEPT !.commands = Append(@, cmd)]
  /\ UNCHANGED <<nnet, check_rewrite, pc, a_, err,
                 computation_checker_warned_unused_input, ca,
                 process, query>>

\* The compiler finishes the program with its input/output associations and
\* a ComputationChecker is constructed on it (lines 508-514).
Construct(io, rewrite) ==
  /\ pc = "compile"
  /\ computation' = [computation EXCEPT !.input_output_info = io]
  /\ check_rewrite' = rewrite
  /\ pc' = "CheckComputationIndexes"
  /\ process' = [process EXCEPT
                   !.checkers = @ + 1,
                   !.warned_before = computation_checker_warned_unused_input]
  /\ UNCHANGED <<nnet, a_, err, computation_checker_warned_unused_input, ca,
                 query>>

\* what a statement of Check() leaves: the error, or the next statement
Outcome(r, check, next) ==
  /\ err' = [msg |-> r.msg, at |-> r.at, check |-> check]
  /\ pc' = IF r.msg = "" THEN next ELSE "error"

\* Check(), line 519
StepIndexes ==
  /\ pc = "CheckComputationIndexes"
  /\ Outcome(CheckComputationIndexes(nnet, computation),
             "CheckComputationIndexes", "a_.Init")
  /\ UNCHANGED <<computation, nnet, check_rewrite, a_,
                 computation_checker_warned_unused_input, ca,
                 process, query>>

InitOutcome(an, check, next) ==
  /\ a_' = an
  /\ Outcome(Fatal(an.failed), check, next)

\* Check(), line 520
StepInit ==
  /\ pc = "a_.Init"
  /\ InitOutcome(AnalyzerInit(a_, nnet, computation),
                 "a_.Init", "CheckComputationOrder")
  /\ UNCHANGED <<computation, nnet, check_rewrite,
                 computation_checker_warned_unused_input, ca,
                 process, query>>

\* Check(), line 521
StepOrder ==
  /\ pc = "CheckComputationOrder"
  /\ Outcome(Fatal(CheckComputationOrder(computation)),
             "CheckComputationOrder", "CheckComputationMatrixAccesses")
  /\ UNCHANGED <<computation, nnet, check_rewrite, a_,
                 computation_checker_warned_unused_input, ca,
                 process, query>>

MatrixAccessesOutcome(r) ==
  /\ computation_checker_warned_unused_input' = r.warned
  /\ process' = [process EXCEPT !.warnings = @ + r.warnings]
  /\ Outcome(Fatal(r.msg), "CheckComputationMatrixAccesses",
             "CheckComputationUndefined")

\* Check(), line 522
StepMatrixAccesses ==
  /\ pc = "CheckComputationMatrixAccesses"
  /\ MatrixAccessesOutcome(
       CheckComputationMatrixAccesses(
         a_, computation_checker_warned_unused_input))
  /\ UNCHANGED <<computation, nnet, check_rewrite, a_, ca, query>>

\* Check(), line 523
StepUndefined ==
  /\ pc = "CheckComputationUndefined"
  /\ Outcome(Fatal(CheckComputationUndefined(a_)),
             "CheckComputationUndefined", "check_rewrite")
  /\ UNCHANGED <<computation, nnet, check_rewrite, a_,
                 computation_checker_warned_unused_input, ca,
                 process, query>>

\* A Check() that runs the rewrite check whatever config_ says.
StepRewriteAlways ==
  /\ pc = "check_rewrite"
  /\ Outcome(Fatal(CheckComputationRewrite(a_)),
             "CheckComputationRewrite", "done")
  /\ UNCHANGED <<computation, nnet, check_rewrite, a_,
                 computation_checker_warned_unused_input, ca,
                 process, query>>

\* Check(), lines 524-525
StepRewrite ==
  /\ pc = "check_rewrite"
  /\ IF check_rewrite
       THEN Outcome(Fatal(CheckComputationRewrite(a_)),
                    "CheckComputationRewrite", "done")
       ELSE pc' = "done" /\ UNCHANGED err
  /\ UNCHANGED <<computation, nnet, check_rewrite, a_,
                 computation_checker_warned_unused_input, ca,
                 process, query>>

\* ComputationChecker::Check, lines 518-527, statement by statement; a fatal
\* error ends it.
Check ==
  \/ StepIndexes
  \/ StepInit
  \/ StepOrder
  \/ StepMatrixAccesses
  \/ StepUndefined
  \/ StepRewrite

Next ==
  \/ \E cmd \in PipelineCommands : Emit(cmd, MaxCommands)
  \/ \E io \in InputOutputInfos, rewrite \in BOOLEAN : Construct(io, rewrite)
  \/ Check

Spec == Init /\ [][Next]_vars

-----------------------------------------------------------------------------
(* The classifier specification: one instruction of any opcode, analysed   *)
(* directly (as the optimizers do) or handed to the checker.               *)

InitClassify ==
  /\ computation = NewComputation(TheMatrices, TheSubmatrices)
  /\ nnet \in {TheNnet(properties) : properties \in ClassifyProperties}
  /\ check_rewrite = TRUE
  /\ pc = "compile"
  /\ a_ = NewAnalyzer
  /\ err = NoError
  /\ computation_checker_warned_unused_input = FALSE
  /\ ca = NoRecord
  /\ process = NewProcess
  /\ query = NoQuery

\* Analyzer::Init on the program, lines 1093-1099.
Analyze ==
  /\ pc = "compile"
  /\ InitOutcome(AnalyzerInit(a_, nnet, computation),
                 "Analyzer::Init", "analyzed")
  /\ UNCHANGED <<computation, nnet, check_rewrite,
                 computation_checker_warned_unused_input, ca,
                 process, query>>

NextClassify ==
  \/ \E cmd \in ClassifyCommands : Emit(cmd, MaxClassified)
  \/ \E io \in {IONone, IOBoth}, rewrite \in BOOLEAN : Construct(io, rewrite)
  \/ Analyze
  \/ Check

SpecClassify == InitClassify /\ [][NextClassify]_vars

-----------------------------------------------------------------------------
(* The partition specification: a table of views, ComputationVariables::   *)
(* Init on it, then accesses recorded through the partition.               *)

InitVars ==
  /\ computation = NewComputation(VarsMatrices, <<NullSubMatrix>>)
  /\ nnet = TheNnet(PipelineProperties)
  /\ check_rewrite = TRUE
  /\ pc = "compile"
  /\ a_ = NewAnalyzer
  /\ err = NoError
  /\ computation_checker_warned_unused_input = FALSE
  /\ ca = NoRecord
  /\ process = NewProcess
  /\ query = NoQuery

\* The compiler creates one more view.
NewSubMatrix(info) ==
  /\ pc = "compile"
  /\ Size(computation.submatrices) <= MaxViews
  /\ info.col_offset + info.num_cols <=
       At(computation.matrices, info.matrix_index).num_cols
  /\ computation' = [computation EXCEPT !.submatrices = Append(@, info)]
  /\ UNCHANGED <<nnet, check_rewrite, pc, a_, err,
                 computation_checker_warned_unused_input, ca,
                 process, query>>

VariablesOutcome(variables) ==
  /\ a_' = [a_ EXCEPT !.variables = variables]
  /\ Outcome(Fatal(variables.failed), "variables.Init", "initialized")

\* ComputationVariables::Init on the table, lines 135-142.
VariablesInit ==
  /\ pc = "compile"
  /\ VariablesOutcome(ComputationVariablesInit(a_.variables, computation))
  /\ UNCHANGED <<computation, nnet, check_rewrite,
                 computation_checker_warned_unused_input, ca,
                 process, query>>

\* One RecordAccessForSubmatrix call on the attributes recorded so far.
Record(submatrix_index, access_type) ==
  /\ pc = "initialized"
  /\ ca.n < MaxRecords
  /\ submatrix_index < Size(computation.submatrices)
  /\ ca' = [n |-> ca.n + 1,
            submatrix_index |-> submatrix_index,
            access_type |-> access_type,
            before |-> ca.attr,
            attr |-> RecordAccessForSubmatrix(a_.variables, submatrix_index,
                                              access_type, ca.attr)]
  /\ UNCHANGED <<computation, nnet, check_rewrite, pc, a_, err,
                 computation_checker_warned_unused_input, process, query>>

NextVars ==
  \/ \E info \in VarsSubmatrices : NewSubMatrix(info)
  \/ VariablesInit
  \/ \E submatrix_index \in 0..MaxViews, access_type \in AccessTypes :
       Record(submatrix_index, access_type)

SpecVars == InitVars /\ [][NextVars]_vars

-----------------------------------------------------------------------------
(* The query specification: a program is analysed (Analyzer::Init) and the *)
(* query functions are called on the result, as the optimizers do.         *)

InitQuery ==
  /\ computation = NewComputation(TheMatrices, TheSubmatrices)
  /\ nnet = TheNnet(PipelineProperties)
  /\ check_rewrite = TRUE
  /\ pc = "compile"
  /\ a_ = NewAnalyzer
  /\ err = NoError
  /\ computation_checker_warned_unused_input = FALSE
  /\ ca = NoRecord
  /\ process = NewProcess
  /\ query = NoQuery

\* what a call of a query function leaves
Queried(fn, index, command_index, r) ==
  /\ query' = [fn |-> fn, index |-> index, command_index |-> command_index,
               failed |-> r.failed, result |-> r.result]
  /\ UNCHANGED <<computation, nnet, check_rewrite, pc, a_, err,
                 computation_checker_warned_unused_input, ca, process>>

AccessedBefore(matrix_index, command_index) ==
  /\ pc = "analyzed"
  /\ Queried("MatrixIsAccessedBeforeCommand", matrix_index, command_index,
            MatrixIsAccessedBeforeCommand(a_.matrix_accesses, matrix_index,
                                          command_index))

AccessedAfter(matrix_index, command_index) ==
  /\ pc = "analyzed"
  /\ Queried("MatrixIsAccessedAfterCommand", matrix_index, command_index,
            MatrixIsAccessedAfterCommand(a_.matrix_accesses, matrix_index,
                                         command_index))

WrittenToAfter(matrix_index, command_index) ==
  /\ pc = "analyzed"
  /\ Queried("MatrixIsWrittenToAfterCommand", matrix_index, command_index,
            MatrixIsWrittenToAfterCommand(a_.matrix_accesses, matrix_index,
                                          command_index))

FirstTimeWrittenToAfter(submatrix_index, command_index) ==
  /\ pc = "analyzed"
  /\ Queried("FirstTimeSubmatrixIsWrittenToAfterCommand", submatrix_index,
            command_index,
            FirstTimeSubmatrixIsWrittenToAfterCommand(a_, submatrix_index,
                                                      command_index))

NextQuery ==
  \/ \E cmd \in QueryCommands : Emit(cmd, MaxQueried)
  \/ Analyze
  \/ \E matrix_index \in 0..(Size(TheMatrices) - 1),
        command_index \in -1..MaxQueried :
       \/ AccessedBefore(matrix_index, command_index)
       \/ AccessedAfter(matrix_index, command_index)
       \/ WrittenToAfter(matrix_index, command_index)
  \/ \E submatrix_index \in 0..(Size(TheSubmatrices) - 1),
        command_index \in -1..MaxQueried :
       FirstTimeWrittenToAfter(submatrix_index, command_index)

SpecQuery == InitQuery /\ [][NextQuery]_vars

-----------------------------------------------------------------------------
(* The bounds specification: one instruction, with operands in range or    *)
(* not, handed to the checker.                                             *)

InitIndexes ==
  /\ computation = NewComputation(TheMatrices, TheSubmatrices)
  /\ nnet \in {TheNnet(properties) : properties \in IndexProperties}
  /\ check_rewrite = TRUE
  /\ pc = "compile"
  /\ a_ = NewAnalyzer
  /\ err = NoError
  /\ computation_checker_warned_unused_input = FALSE
  /\ ca = NoRecord
  /\ process = NewProcess
  /\ query = NoQuery

NextIndexes ==
  \/ \E cmd \in IndexCommands : Emit(cmd, MaxChecked)
  \/ \E io \in {IOBoth}, rewrite \in BOOLEAN : Construct(io, rewrite)
  \/ Check

SpecIndexes == InitIndexes /\ [][NextIndexes]_vars

-----------------------------------------------------------------------------
(* The process specification: one process checks program after program;    *)
(* the file-static warned flag lives as long as the process.               *)

InitProcess ==
  /\ computation = NewComputation(TheMatrices, TheSubmatrices)
  /\ nnet = TheProcessNnet
  /\ check_rewrite = TRUE
  /\ pc = "compile"
  /\ a_ = NewAnalyzer
  /\ err = NoError
  /\ computation_checker_warned_unused_input = FALSE
  /\ ca = NoRecord
  /\ process = NewProcess
  /\ query = NoQuery

\* Check() has returned, or its fatal error has been caught, and the
\* compiler starts on the next program; the checker object and its
\* analysis are gone, the file-static flag stays.
NextProgram ==
  /\ pc \in {"done", "error"}
  /\ process.checkers < MaxCheckers
  /\ pc' = "compile"
  /\ computation' = NewComputation(TheMatrices, TheSubmatrices)
  /\ a_' = NewAnalyzer
  /\ err' = NoError
  /\ UNCHANGED <<nnet, check_rewrite, computation_checker_warned_unused_input,
                 ca, process, query>>

NextProcess ==
  \/ \E cmd \in ProcessCommands : Emit(cmd, MaxProcessed)
  \/ \E io \in {IOTwoInputs, IOInputSecond}, rewrite \in {FALSE} :
       Construct(io, rewrite)
  \/ Check
  \/ NextProgram

SpecProcess == InitProcess /\ [][NextProcess]_vars

-----------------------------------------------------------------------------
(* The undefined-use specification: buffer 1 is an input and an output,    *)
(* buffer 2 an output the program must allocate and fill; the views are    *)
(* whole buffers, first rows and single columns.                           *)

\* Views 1 and 2 are the whole buffers, 3 and 4 their first rows
\* (partial-row views), 5 and 7 the two columns of buffer 2 and 6 the first
\* column of buffer 1.
UndefinedSubmatrices ==
  <<NullSubMatrix,
    SubMatrixInfo(1, 0, NumRows, 0, NumCols),
    SubMatrixInfo(2, 0, NumRows, 0, NumCols),
    SubMatrixInfo(1, 0, 1, 0, NumCols),
    SubMatrixInfo(2, 0, 1, 0, NumCols),
    SubMatrixInfo(2, 0, NumRows, 0, 1),
    SubMatrixInfo(1, 0, NumRows, 0, 1),
    SubMatrixInfo(2, 0, NumRows, 1, NumCols - 1)>>

\* The instructions the compiler of the undefined-use specification emits:
\* buffer 2 allocated undefined or zeroed, then written whole, accumulated
\* into, written through its first row, or written column by column.
UndefinedCommands ==
  {Command("kAllocMatrixUndefined", 2, -1, -1, -1, -1, -1),
   Command("kAllocMatrixZeroed", 2, -1, -1, -1, -1, -1),
   Command("kMatrixCopy", 2, 1, -1, -1, -1, -1),
   Command("kMatrixAdd", 2, 1, -1, -1, -1, -1),
   Command("kMatrixCopy", 4, 3, -1, -1, -1, -1),
   Command("kMatrixCopy", 5, 6, -1, -1, -1, -1),
   Command("kMatrixCopy", 7, 6, -1, -1, -1, -1),
   Command("kNoOperationMarker", -1, -1, -1, -1, -1, -1)}

InitUndefined ==
  /\ computation = NewComputation(TheMatrices, UndefinedSubmatrices)
  /\ nnet = TheNnet(PipelineProperties)
  /\ check_rewrite = TRUE
  /\ pc = "compile"
  /\ a_ = NewAnalyzer
  /\ err = NoError
  /\ computation_checker_warned_unused_input = FALSE
  /\ ca = NoRecord
  /\ process = NewProcess
  /\ query = NoQuery

NextUndefined ==
  \/ \E cmd \in UndefinedCommands : Emit(cmd, MaxUndefined)
  \/ \E io \in {IOOutSecond}, rewrite \in BOOLEAN : Construct(io, rewrite)
  \/ Check

SpecUndefined == InitUndefined /\ [][NextUndefined]_vars

-----------------------------------------------------------------------------
(* Properties. *)

Rank(check) == CHOOSE i \in 1..(Len(Checks) + 1) :
                  i = Len(Checks) + 1 \/ Checks[i] = check

\* the statement `check` has been executed and returned
Passed(check) ==
  /\ err.check \in Range(Checks)
  /\ \/ Rank(err.check) > Rank(check)
     \/ err.check = check /\ err.msg = ""

\* the statement `check` has been executed and raised a fatal error
Rejected(check) == err.check = check /\ err.msg # ""

\* the columns of a view, the variables of its range, the columns of a
\* variable of buffer m, and the variables of buffer m
ViewColumns(s) == s.col_offset..(s.col_offset + s.num_cols - 1)

ViewVariables(this, submatrix_index) ==
  At(this.variable_ranges_, submatrix_index).first..
    (At(this.variable_ranges_, submatrix_index).second - 1)

BufferVariables(this, m) ==
  At(this.matrix_to_variable_index_, m)..
    (At(this.matrix_to_variable_index_, m + 1) - 1)

VariableColumns(this, m, v) ==
  LET k == v - At(this.matrix_to_variable_index_, m)
  IN  At(At(this.split_points_, m), k)..(At(At(this.split_points_, m), k + 1) - 1)

StrictlyIncreasing(v) == \A i, j \in 1..Len(v) : i < j => v[i] < v[j]

DisjointVariables(this, m) ==
  \A v, w \in BufferVariables(this, m) :
    v # w => VariableColumns(this, m, v) \cap VariableColumns(this, m, w) = {}

CoveredColumns(this, m) ==
  UNION {VariableColumns(this, m, v) : v \in BufferVariables(this, m)}

ViewIsAligned(this, c, submatrix_index) ==
  LET s == At(c.submatrices, submatrix_index)
  IN  /\ ViewVariables(this, submatrix_index) # {}
      /\ ViewVariables(this, submatrix_index) \subseteq
           BufferVariables(this, s.matrix_index)
      /\ ViewColumns(s) =
           UNION {VariableColumns(this, s.matrix_index, v) :
                    v \in ViewVariables(this, submatrix_index)}

\* C1: whenever ComputationVariables::Init succeeds, every buffer's split
\* points are strictly increasing, its variables are pairwise disjoint column
\* intervals whose union is the buffer's full column range [0, num_cols), and
\* every view's columns are exactly the union of the variables of its range.
\* (The code does not make this true: see C1_PartitionOfViewedColumns.)
C1_PartitionOfFullRange ==
  pc = "initialized" =>
    /\ \A m \in 1..(Size(computation.matrices) - 1) :
         /\ StrictlyIncreasing(At(a_.variables.split_points_, m))
         /\ DisjointVariables(a_.variables, m)
         /\ CoveredColumns(a_.variables, m) =
              0..(At(computation.matrices, m).num_cols - 1)
    /\ \A s \in 1..(Size(computation.submatrices) - 1) :
         ViewIsAligned(a_.variables, computation, s)

\* What the code does guarantee of C1: the same, with the union of a
\* buffer's variables being the column interval from its views' least
\* column offset to their greatest column end.
C1_PartitionOfViewedColumns ==
  pc = "initialized" =>
    /\ \A m \in 1..(Size(computation.matrices) - 1) :
         LET views == {s \in 1..(Size(computation.submatrices) - 1) :
                         At(computation.submatrices, s).matrix_index = m}
             columns == UNION {ViewColumns(At(computation.submatrices, s)) :
                                 s \in views}
         IN  /\ StrictlyIncreasing(At(a_.variables.split_points_, m))
             /\ DisjointVariables(a_.variables, m)
             /\ views # {}
             /\ CoveredColumns(a_.variables, m) = columns
             /\ \A x, y \in columns : x..y \subseteq columns
    /\ \A s \in 1..(Size(computation.submatrices) - 1) :
         ViewIsAligned(a_.variables, computation, s)

\* Init succeeded on a buffer whose views leave its first column out.
C1_Witness ==
  /\ pc = "initialized"
  /\ \E m \in 1..(Size(computation.matrices) - 1) :
       0 \notin CoveredColumns(a_.variables, m)

\* the geometry of view ca.submatrix_index
RecordedView == At(computation.submatrices, ca.submatrix_index)

RecordedViewSpansRows ==
  /\ RecordedView.row_offset = 0
  /\ RecordedView.num_rows =
       At(computation.matrices, RecordedView.matrix_index).num_rows

RecordedViewIsWhole ==
  /\ RecordedViewSpansRows
  /\ RecordedView.col_offset = 0
  /\ RecordedView.num_cols =
       At(computation.matrices, RecordedView.matrix_index).num_cols

\* the variables of a view, in increasing order
ViewVariableSeq(this, submatrix_index) ==
  [i \in 1..Cardinality(ViewVariables(this, submatrix_index)) |->
     At(this.variable_ranges_, submatrix_index).first + i - 1]

\* C8: RecordAccessForSubmatrix with kind Write on a non-null view adds the
\* view's variables to the written set and its buffer to the written-buffer
\* set; it adds the variables to the read set exactly when the view does not
\* span the buffer's full row range, and the buffer to the read-buffer set
\* exactly when the view is not the buffer's whole extent.  On the null view
\* it records nothing, whatever the access kind.
C8_RecordWrite ==
  ca.n > 0 =>
    /\ ca.submatrix_index = 0 => ca.attr = ca.before
    /\ (ca.submatrix_index # 0 /\ ca.access_type = "kWriteAccess") =>
         /\ ca.attr.variables_written =
              ca.before.variables_written \o
              ViewVariableSeq(a_.variables, ca.submatrix_index)
         /\ ca.attr.matrices_written =
              Append(ca.before.matrices_written, RecordedView.matrix_index)
         /\ ca.attr.variables_read =
              IF RecordedViewSpansRows THEN ca.before.variables_read
              ELSE ca.before.variables_read \o
                   ViewVariableSeq(a_.variables, ca.submatrix_index)
         /\ ca.attr.matrices_read =
              IF RecordedViewIsWhole THEN ca.before.matrices_read
              ELSE Append(ca.before.matrices_read, RecordedView.matrix_index)

\* a Write recorded, after an earlier record, on a view that spans some but
\* not all rows
C8_Witness ==
  /\ ca.n = 2
  /\ ca.before # NewCommandAttributes
  /\ ca.submatrix_index # 0
  /\ ca.access_type = "kWriteAccess"
  /\ ~RecordedViewSpansRows
  /\ Len(ca.attr.variables_read) > Len(ca.before.variables_read)

\* the buffers other than the null one, and the access history of one
Buffers == 1..(Size(computation.matrices) - 1)

History(m) == At(a_.matrix_accesses, m)

AccessIndexes(m) ==
  {History(m).accesses[i].command_index : i \in 1..Len(History(m).accesses)}

IsAllocationOf(cmd, m) ==
  /\ cmd.command_type \in {"kAllocMatrixZeroed", "kAllocMatrixUndefined"}
  /\ cmd.arg1 = m

IsDeallocationOf(cmd, m) ==
  cmd.command_type = "kDeallocMatrix" /\ cmd.arg1 = m

\* C2: in a program the lifecycle check accepts, every buffer that is
\* neither an input nor an output has a non-empty access history, all of it
\* at or after its allocation instruction and before its deallocation
\* instruction; and a program in which a non-input buffer's first access
\* precedes its allocation, or a non-output buffer's last access is at or
\* after its deallocation, is not accepted.
C2_Lifecycle ==
  Passed("CheckComputationMatrixAccesses") =>
    \A m \in Buffers :
      /\ (~History(m).is_input /\ ~History(m).is_output) =>
           /\ AccessIndexes(m) # {}
           /\ History(m).allocate_command \in 0..(Size(computation.commands) - 1)
           /\ History(m).deallocate_command \in 0..(Size(computation.commands) - 1)
           /\ IsAllocationOf(At(computation.commands,
                                History(m).allocate_command), m)
           /\ IsDeallocationOf(At(computation.commands,
                                  History(m).deallocate_command), m)
           /\ \A a \in AccessIndexes(m) :
                /\ History(m).allocate_command <= a
                /\ a < History(m).deallocate_command
      /\ ~History(m).is_input =>
           ~(\E a \in AccessIndexes(m) :
               History(m).allocate_command # -1 /\
               a < History(m).allocate_command)
      /\ ~History(m).is_output =>
           ~(\E a \in AccessIndexes(m) :
               History(m).deallocate_command # -1 /\
               a >= History(m).deallocate_command)

\* the lifecycle check accepted a program whose internal buffer is
\* allocated, accessed by a later instruction and then deallocated
C2_Witness ==
  /\ Passed("CheckComputationMatrixAccesses")
  /\ \E m \in Buffers :
       /\ ~History(m).is_input /\ ~History(m).is_output
       /\ \E a \in AccessIndexes(m) : a > History(m).allocate_command

\* the positions (0-based) of the commands of a type
Positions(types) ==
  {i \in 0..(Size(computation.commands) - 1) :
     At(computation.commands, i).command_type \in types}

WellOrdered ==
  /\ Cardinality(Positions({"kNoOperationMarker"})) = 1
  /\ \A marker \in Positions({"kNoOperationMarker"}) :
       /\ \A i \in Positions({"kBackprop"}) : ~(i < marker)
       /\ \A i \in Positions({"kPropagate", "kStoreStats"}) : ~(i > marker)

\* C3: the ordering check accepts a program if and only if it has exactly
\* one pass marker, no Backprop before the marker and no Propagate or
\* StoreStats after it; otherwise it raises a fatal error.
C3_Order ==
  /\ Passed("CheckComputationOrder") => WellOrdered
  /\ Rejected("CheckComputationOrder") => ~WellOrdered
  /\ (CheckComputationOrder(computation) = "") <=> WellOrdered

\* the ordering check accepted a program with a Propagate, the marker and a
\* Backprop
C3_Witness ==
  /\ Passed("CheckComputationOrder")
  /\ Positions({"kPropagate"}) # {}
  /\ Positions({"kBackprop"}) # {}

\* the analysis has been built
AnalysisBuilt ==
  \/ Passed("a_.Init")
  \/ err.check = "Analyzer::Init" /\ err.msg = ""

Variables == 0..(Size(a_.variable_accesses) - 1)

Kinds(v) == At(a_.variable_accesses, v)

\* a write or read-write access later in the history than a pure read
ModifiedAfterRead(v) ==
  \E i, j \in 1..Len(Kinds(v)) :
    /\ i < j
    /\ Kinds(v)[i].access_type = "kReadAccess"
    /\ Kinds(v)[j].access_type \in {"kWriteAccess", "kReadWriteAccess"}

OwnerIsInput(v) ==
  At(a_.matrix_accesses, At(a_.variables.variable_to_matrix_, v)).is_input

RewriteSafe ==
  \A v \in Variables :
    /\ ~ModifiedAfterRead(v)
    /\ Kinds(v) # <<>> \/ OwnerIsInput(v)

\* C4: the rewrite-safety check accepts an analysis result if and only if,
\* for every variable, no Write or ReadWrite access comes later in its
\* history than a Read access, and its history is non-empty or its buffer is
\* an input.
C4_Rewrite ==
  /\ AnalysisBuilt => ((CheckComputationRewrite(a_) = "") <=> RewriteSafe)
  /\ Passed("CheckComputationRewrite") => RewriteSafe
  /\ Rejected("CheckComputationRewrite") => ~RewriteSafe

\* the rewrite-safety check rejected a program in which a variable is read,
\* read again and then written
C4_Witness ==
  /\ Rejected("CheckComputationRewrite")
  /\ \E v \in Variables :
       /\ Len(Kinds(v)) >= 3
       /\ Kinds(v)[1].access_type = "kReadAccess"
       /\ Kinds(v)[2].access_type = "kReadAccess"
       /\ Kinds(v)[3].access_type # "kReadAccess"

\* Check() has returned, or has raised a fatal error
Accepted == pc = "done"

Finished == pc \in {"done", "error"}

PassesIndexesOrderLifecycle ==
  /\ CheckComputationIndexes(nnet, computation).msg = ""
  /\ AnalysisBuilt
  /\ CheckComputationOrder(computation) = ""
  /\ CheckComputationMatrixAccesses(a_, FALSE).msg = ""

\* the undefined-use check: every variable of a non-input buffer has a
\* history that starts with a pure Write
NoUndefinedUse ==
  \A v \in Variables :
    OwnerIsInput(v) \/
    (Kinds(v) # <<>> /\ Kinds(v)[1].access_type = "kWriteAccess")

Attr(i) == At(a_.command_attributes, i)

Read(i) == Range(Attr(i).variables_read)

Written(i) == Range(Attr(i).variables_written)

\* the geometry of a view of the program
SpansRows(submatrix_index) ==
  LET s == At(computation.submatrices, submatrix_index)
  IN  s.row_offset = 0 /\
      s.num_rows = At(computation.matrices, s.matrix_index).num_rows

IsWhole(submatrix_index) ==
  LET s == At(computation.submatrices, submatrix_index)
  IN  /\ SpansRows(submatrix_index)
      /\ s.col_offset = 0
      /\ s.num_cols = At(computation.matrices, s.matrix_index).num_cols

BufferOf(submatrix_index) ==
  At(computation.submatrices, submatrix_index).matrix_index

VariablesOf(submatrix_index) == ViewVariables(a_.variables, submatrix_index)

\* Command i recorded exactly the accesses `calls`, a set of
\* <<view, kind>>: a null view records nothing; a Write counts as a read of
\* the variables when the view does not span all rows, and as a read of the
\* buffer when the view is not the whole buffer.
Records(i, calls) ==
  LET reads == {c \in calls : c[1] # 0 /\
                  c[2] \in {"kReadAccess", "kReadWriteAccess"}}
      writes == {c \in calls : c[1] # 0 /\
                   c[2] \in {"kWriteAccess", "kReadWriteAccess"}}
      pure == {c \in calls : c[1] # 0 /\ c[2] = "kWriteAccess"}
  IN  /\ Written(i) = UNION {VariablesOf(c[1]) : c \in writes}
      /\ Read(i) = UNION {VariablesOf(c[1]) :
                            c \in reads \cup {p \in pure : ~SpansRows(p[1])}}
      /\ Range(Attr(i).submatrices_written) = {c[1] : c \in writes}
      /\ Range(Attr(i).submatrices_read) = {c[1] : c \in reads}
      /\ Range(Attr(i).matrices_written) = {BufferOf(c[1]) : c \in writes}
      /\ Range(Attr(i).matrices_read) =
           {BufferOf(c[1]) : c \in reads \cup {p \in pure : ~IsWhole(p[1])}}

CommandAt(i) == At(computation.commands, i)

\* C6: for CopyRows(dest, src, index-list) whose dest spans all rows and
\* shares no variable with src: without a -1 in the list every variable of
\* dest is written and not read; with a -1 every variable of dest is written
\* and read; either way every variable of src is read.
C6_CopyRows ==
  AnalysisBuilt =>
    \A i \in Positions({"kCopyRows"}) :
      LET dest == VariablesOf(CommandAt(i).arg1)
          src == VariablesOf(CommandAt(i).arg2)
          indexes == At(computation.indexes, CommandAt(i).arg3)
      IN  (SpansRows(CommandAt(i).arg1) /\ dest \cap src = {}) =>
            /\ dest # {}
            /\ dest \subseteq Written(i)
            /\ IF -1 \in Range(indexes)
                 THEN dest \subseteq Read(i)
                 ELSE dest \cap Read(i) = {}
            /\ src \subseteq Read(i)

\* a CopyRows with a -1 in its list, on a dest that spans all rows and is
\* disjoint from src, has been classified
C6_Witness ==
  /\ AnalysisBuilt
  /\ \E i \in Positions({"kCopyRows"}) :
       /\ SpansRows(CommandAt(i).arg1)
       /\ VariablesOf(CommandAt(i).arg1) \cap VariablesOf(CommandAt(i).arg2) = {}
       /\ -1 \in Range(At(computation.indexes, CommandAt(i).arg3))
       /\ VariablesOf(CommandAt(i).arg1) \subseteq Read(i)

\* the pair list of a multi command, and a repeated pair in it other than
\* the (-1, -1) sentinel
PairsOf(i) == At(computation.indexes_multi, CommandAt(i).arg2)

DuplicatePair(pairs) ==
  \E j, k \in 1..Len(pairs) :
    j < k /\ pairs[j] = pairs[k] /\ pairs[j] # <<-1, -1>>

Scatters == {"kAddToRowsMulti", "kCopyToRowsMulti"}

\* C7: the bounds check rejects a program with a scatter instruction whose
\* pair list repeats a pair other than (-1, -1); it reports a duplicate only
\* for a scatter instruction with such a repeated pair, so repeated
\* sentinels and the gather instructions never raise it; and but for that
\* report a scatter instruction is checked as the gather instruction with
\* the same operands is.
C7_Duplicates ==
  /\ Passed("CheckComputationIndexes") =>
       \A i \in Positions(Scatters) : ~DuplicatePair(PairsOf(i))
  /\ (Rejected("CheckComputationIndexes") /\
      err.msg = "Duplicate element found in indexes") =>
       /\ err.at \in Positions(Scatters)
       /\ DuplicatePair(PairsOf(err.at))
  /\ \A i \in Positions(Scatters) :
       CheckCommandIndexes(nnet, computation, CommandAt(i)) =
         LET gather == CheckCommandIndexes(nnet, computation,
                         [CommandAt(i) EXCEPT !.command_type = "kAddRowsMulti"])
         IN  IF gather # "" THEN gather
             ELSE IF DuplicatePair(PairsOf(i))
               THEN "Duplicate element found in indexes"
             ELSE ""

\* the bounds check rejected a scatter for a repeated pair although its
\* list also holds a sentinel
C7_Witness ==
  /\ Rejected("CheckComputationIndexes")
  /\ err.msg = "Duplicate element found in indexes"
  /\ <<-1, -1>> \in Range(PairsOf(err.at))

\* the capability flags of the component of a Propagate (arg1 a component)
\* and of a Backprop (arg1 a node)
PropagateFlags(i) ==
  At(nnet.components, CommandAt(i).arg1).properties

BackpropFlags(i) ==
  At(nnet.components, At(nnet.nodes, CommandAt(i).arg1).component).properties

\* C9: Propagate records Read on its in-view and, on its out-view,
\* ReadWrite if the component has the propagate-accumulates capability and
\* Write otherwise; Backprop records Read on its in-view, out-view and
\* out-deriv-view and, on its in-deriv-view, ReadWrite if the node's
\* component has the backprop-accumulates capability and Write otherwise.
C9_PropagateBackprop ==
  AnalysisBuilt =>
    /\ \A i \in Positions({"kPropagate"}) :
         Records(i, {<<CommandAt(i).arg3, "kReadAccess">>,
                     <<CommandAt(i).arg4,
                       IF "kPropagateAdds" \in PropagateFlags(i)
                         THEN "kReadWriteAccess" ELSE "kWriteAccess">>})
    /\ \A i \in Positions({"kBackprop"}) :
         Records(i, {<<CommandAt(i).arg3, "kReadAccess">>,
                     <<CommandAt(i).arg4, "kReadAccess">>,
                     <<CommandAt(i).arg5, "kReadAccess">>,
                     <<CommandAt(i).arg6,
                       IF "kBackpropAdds" \in BackpropFlags(i)
                         THEN "kReadWriteAccess" ELSE "kWriteAccess">>})

\* a Backprop with a null in-view, on a component that does not accumulate,
\* has been classified: its in-deriv-view is written and not read
C9_Witness ==
  /\ AnalysisBuilt
  /\ \E i \in Positions({"kBackprop"}) :
       /\ "kBackpropAdds" \notin BackpropFlags(i)
       /\ CommandAt(i).arg3 = 0
       /\ CommandAt(i).arg6 # 0
       /\ VariablesOf(CommandAt(i).arg6) \subseteq Written(i)
       /\ VariablesOf(CommandAt(i).arg6) \cap Read(i) = {}

\* the destination views a pair list names
Destinations(pairs) == {pairs[k][1] : k \in 1..Len(pairs)} \ {-1}

\* C10: a scatter instruction records Read on its source view and ReadWrite
\* on every destination view its pair list names, so every variable of such
\* a view is both read and written, and no other view is recorded as written.
C10_Scatter ==
  AnalysisBuilt =>
    \A i \in Positions(Scatters) :
      /\ Records(i, {<<CommandAt(i).arg1, "kReadAccess">>} \cup
                    {<<d, "kReadWriteAccess">> : d \in Destinations(PairsOf(i))})
      /\ \A d \in Destinations(PairsOf(i)) :
           VariablesOf(d) \subseteq (Read(i) \cap Written(i))
      /\ Range(Attr(i).submatrices_written) = Destinations(PairsOf(i))

\* a scatter whose list names two views and holds a sentinel has been
\* classified
C10_Witness ==
  /\ AnalysisBuilt
  /\ \E i \in Positions(Scatters) :
       /\ Cardinality(Destinations(PairsOf(i))) = 2
       /\ <<-1, -1>> \in Range(PairsOf(i))
       /\ Range(Attr(i).submatrices_written) = Destinations(PairsOf(i))


\* all six attribute sets of command i are empty
RecordsNothing(i) ==
  /\ Attr(i).variables_read = <<>> /\ Attr(i).variables_written = <<>>
  /\ Attr(i).submatrices_read = <<>> /\ Attr(i).submatrices_written = <<>>
  /\ Attr(i).matrices_read = <<>> /\ Attr(i).matrices_written = <<>>

\* C11: Allocate-zeroed(buf) puts every variable of buf, its whole
\* contiguous block, in the written set and none in the read set, and buf in
\* the written-buffer set only; Allocate-undefined, Deallocate, NoOp and the
\* pass marker leave all six attribute sets empty.
C11_Allocate ==
  AnalysisBuilt =>
    /\ \A i \in Positions({"kAllocMatrixZeroed"}) :
         /\ Written(i) = BufferVariables(a_.variables, CommandAt(i).arg1)
         /\ Written(i) # {}
         /\ Attr(i).variables_read = <<>>
         /\ Attr(i).matrices_written = <<CommandAt(i).arg1>>
         /\ Attr(i).matrices_read = <<>>
         /\ Attr(i).submatrices_read = <<>>
         /\ Attr(i).submatrices_written = <<>>
    /\ \A i \in Positions({"kAllocMatrixUndefined", "kDeallocMatrix",
                           "kNoOperation", "kNoOperationMarker"}) :
         RecordsNothing(i)

\* an Allocate-zeroed of a buffer of two variables has been classified
C11_Witness ==
  /\ AnalysisBuilt
  /\ \E i \in Positions({"kAllocMatrixZeroed"}) :
       /\ Cardinality(Written(i)) = 2
       /\ Attr(i).variables_read = <<>>


\* the accesses of a history (a sequence of Access) at command c
AccessesAt(accesses, c) ==
  {k \in 1..Len(accesses) : accesses[k].command_index = c}

\* a history holds exactly one Access of command c, of the kind the read
\* and written sets give, if the index is in one of them, and none otherwise
HistoryMatches(accesses, c, is_read, is_written) ==
  IF is_read \/ is_written
    THEN /\ Cardinality(AccessesAt(accesses, c)) = 1
         /\ \A k \in AccessesAt(accesses, c) :
              accesses[k].access_type =
                IF is_read /\ is_written THEN "kReadWriteAccess"
                ELSE IF is_read THEN "kReadAccess" ELSE "kWriteAccess"
    ELSE AccessesAt(accesses, c) = {}

\* C12: for every instruction c and every variable v (buffer m), the history
\* of v (of m) holds an Access of c if and only if v (m) is in c's read or
\* written set, and then exactly one, of kind ReadWrite if in both sets,
\* Read if only in the read set, Write if only in the written set.
C12_Histories ==
  AnalysisBuilt =>
    \A c \in 0..(Size(computation.commands) - 1) :
      /\ \A v \in Variables :
           HistoryMatches(Kinds(v), c, v \in Read(c), v \in Written(c))
      /\ \A m \in Buffers :
           HistoryMatches(History(m).accesses, c,
                          m \in Range(Attr(c).matrices_read),
                          m \in Range(Attr(c).matrices_written))

\* a variable has been written, then read and written by one instruction,
\* then read
C12_Witness ==
  /\ AnalysisBuilt
  /\ \E v \in Variables :
       /\ Len(Kinds(v)) = 3
       /\ Kinds(v)[1].access_type = "kWriteAccess"
       /\ Kinds(v)[2].access_type = "kReadWriteAccess"
       /\ Kinds(v)[3].access_type = "kReadAccess"
       /\ v \in Read(1) \cap Written(1)


\* the query function fn has been called and has returned
Answered(fn) == query.fn = fn /\ query.failed = ""

\* the history of the buffer that was asked about
Asked == History(query.index).accesses

\* C17: MatrixIsAccessedBeforeCommand(B, C) returns true if and only if B's
\* history holds an access, at an instruction other than B's own allocation
\* instruction, whose index is less than C; so it is true when B's first
\* access is its zero-filling allocation and its second access precedes C.
\* (The code does not make this true: see C17_FirstAccessOnly.)
C17_AccessedBefore ==
  Answered("MatrixIsAccessedBeforeCommand") =>
    (query.result <=>
       \E k \in 1..Len(Asked) :
         /\ Asked[k].command_index # History(query.index).allocate_command
         /\ Asked[k].command_index < query.command_index)

\* What the code does guarantee of C17: the answer is true if and only if
\* the first access of B is not its allocation instruction and precedes C.
C17_FirstAccessOnly ==
  Answered("MatrixIsAccessedBeforeCommand") =>
    (query.result <=>
       /\ Asked # <<>>
       /\ Asked[1].command_index # History(query.index).allocate_command
       /\ Asked[1].command_index < query.command_index)

\* the function answered false for a buffer whose first access is its
\* zero-filling allocation and whose second access precedes C
C17_Witness ==
  /\ Answered("MatrixIsAccessedBeforeCommand")
  /\ Len(Asked) >= 2
  /\ Asked[1].command_index = History(query.index).allocate_command
  /\ CommandAt(Asked[1].command_index).command_type = "kAllocMatrixZeroed"
  /\ Asked[2].command_index < query.command_index
  /\ query.result = FALSE

\* C18: on an analysis result built by Analyzer::Init,
\* MatrixIsWrittenToAfterCommand(B, C) is true if and only if B's history
\* holds a Write or ReadWrite access later than C, and
\* MatrixIsAccessedAfterCommand(B, C) if and only if it holds any access
\* later than C; both are false for an empty history.
C18_AfterCommand ==
  /\ Answered("MatrixIsWrittenToAfterCommand") =>
       /\ query.result <=>
            \E k \in 1..Len(Asked) :
              /\ Asked[k].command_index > query.command_index
              /\ Asked[k].access_type \in {"kWriteAccess", "kReadWriteAccess"}
       /\ Asked = <<>> => query.result = FALSE
  /\ Answered("MatrixIsAccessedAfterCommand") =>
       /\ query.result <=>
            \E k \in 1..Len(Asked) :
              Asked[k].command_index > query.command_index
       /\ Asked = <<>> => query.result = FALSE

\* the function answered true for a buffer that is written after C and
\* whose latest access is a pure read
C18_Witness ==
  /\ Answered("MatrixIsWrittenToAfterCommand")
  /\ Asked # <<>>
  /\ Back(Asked).access_type = "kReadAccess"
  /\ query.result = TRUE

\* the instructions later than C that write a variable of the view asked
\* about
WritesAfter ==
  {i \in (query.command_index + 1)..(Size(computation.commands) - 1) :
     \E v \in VariablesOf(query.index) :
       \E k \in 1..Len(Kinds(v)) :
         /\ Kinds(v)[k].command_index = i
         /\ Kinds(v)[k].access_type \in {"kWriteAccess", "kReadWriteAccess"}}

\* C19: FirstTimeSubmatrixIsWrittenToAfterCommand(V, C) returns the least
\* instruction index i > C at which some variable of view V has a Write or
\* ReadWrite access, and -1 exactly when there is none.
C19_FirstTimeWritten ==
  Answered("FirstTimeSubmatrixIsWrittenToAfterCommand") =>
    /\ (query.result = -1) <=> (WritesAfter = {})
    /\ WritesAfter # {} =>
         /\ query.result \in WritesAfter
         /\ \A i \in WritesAfter : query.result <= i

\* the function was asked about a view written by two instructions after C
C19_Witness ==
  /\ Answered("FirstTimeSubmatrixIsWrittenToAfterCommand")
  /\ Cardinality(WritesAfter) = 2
  /\ query.result \in WritesAfter


\* the instructions of the program that allocate, and that deallocate,
\* buffer m
Allocations(m) ==
  {i \in 0..(Size(computation.commands) - 1) : IsAllocationOf(CommandAt(i), m)}

Deallocations(m) ==
  {i \in 0..(Size(computation.commands) - 1) : IsDeallocationOf(CommandAt(i), m)}

ExactlyOneOf(p, q) == (p /\ ~q) \/ (~p /\ q)

AllocatesOrDeallocatesTwice ==
  \E m \in Buffers :
    Cardinality(Allocations(m)) > 1 \/ Cardinality(Deallocations(m)) > 1

\* C13: in a program on which the analysis was built and which the
\* lifecycle check accepts, each buffer has exactly one of {exactly one
\* allocate instruction, the input flag} and exactly one of {exactly one
\* deallocate instruction, the output flag}; a program that allocates or
\* deallocates a buffer twice ends in a fatal error, raised by the
\* construction of the analysis if the bounds check let it through.
C13_AllocatedOrInput ==
  /\ Passed("CheckComputationMatrixAccesses") =>
       \A m \in Buffers :
         /\ ExactlyOneOf(Cardinality(Allocations(m)) = 1, History(m).is_input)
         /\ ExactlyOneOf(Cardinality(Deallocations(m)) = 1,
                         History(m).is_output)
  /\ AllocatesOrDeallocatesTwice =>
       /\ ~AnalysisBuilt
       /\ Finished => pc = "error"
       /\ Passed("CheckComputationIndexes") /\ err.check = "a_.Init" =>
            err.msg \in {"Matrix initialized twice.", "Matrix destroyed twice."}

\* the lifecycle check accepted a program with an input buffer that is never
\* allocated and an output buffer that is allocated and never deallocated
C13_Witness ==
  /\ Passed("CheckComputationMatrixAccesses")
  /\ \E m \in Buffers :
       History(m).is_input /\ Allocations(m) = {}
  /\ \E m \in Buffers :
       /\ History(m).is_output /\ ~History(m).is_input
       /\ Cardinality(Allocations(m)) = 1 /\ Deallocations(m) = {}


\* the view with index i of the program, and whether i is the index of one
View(i) == At(computation.submatrices, i)

IsView(i) == i >= 0 /\ i < Size(computation.submatrices)

IsNonNullView(i) == i >= 1 /\ i < Size(computation.submatrices)

IsBuffer(i) == i >= 1 /\ i < Size(computation.matrices)

IsIndexOf(i, size) == i >= 0 /\ i < size

\* the range list a RangeAccumulate names (its third operand) is as long as
\* dest has rows and every range of it lies within the rows of src
RangesValid(i) ==
  LET ranges == At(computation.indexes_ranges, CommandAt(i).arg3)
  IN  /\ Len(ranges) = View(CommandAt(i).arg1).num_rows
      /\ \A k \in 1..Len(ranges) :
           /\ 0 <= ranges[k][1]
           /\ ranges[k][1] <= ranges[k][2]
           /\ ranges[k][2] <= View(CommandAt(i).arg2).num_rows

\* C14: in a program the bounds check accepts, the range list named by the
\* third operand of every RangeAccumulate(dest, src, range-list) has exactly
\* dest's row count entries, each with 0 <= start <= end <= rows of src.
\* (The code does not make this true: see C14_RangesOfSourceIndex.)
C14_RangesValid ==
  Passed("CheckComputationIndexes") =>
    \A i \in Positions({"kAddRowRanges"}) : RangesValid(i)

\* What the code does guarantee of C14: the same of the range list whose
\* index is the second operand (the index of the source view), line 854.
C14_RangesOfSourceIndex ==
  Passed("CheckComputationIndexes") =>
    \A i \in Positions({"kAddRowRanges"}) :
      LET ranges == At(computation.indexes_ranges, CommandAt(i).arg2)
      IN  /\ IsIndexOf(CommandAt(i).arg3, Size(computation.indexes_ranges))
          /\ Len(ranges) = View(CommandAt(i).arg1).num_rows
          /\ \A k \in 1..Len(ranges) :
               /\ 0 <= ranges[k][1]
               /\ ranges[k][1] <= ranges[k][2]
               /\ ranges[k][2] <= View(CommandAt(i).arg2).num_rows

\* the bounds check accepted a RangeAccumulate whose range list has a range
\* that ends before it starts
C14_Witness ==
  /\ Passed("CheckComputationIndexes")
  /\ \E i \in Positions({"kAddRowRanges"}) :
       \E k \in 1..Len(At(computation.indexes_ranges, CommandAt(i).arg3)) :
         At(computation.indexes_ranges, CommandAt(i).arg3)[k][2] <
           At(computation.indexes_ranges, CommandAt(i).arg3)[k][1]

\* the operands of command i other than a precomputed-indexes index are in
\* range: buffers in [1, buffers), views in [0, views) and non-null where
\* the opcode requires one, components, nodes and tables within their tables
OperandsInRange(i) ==
  LET cmd == CommandAt(i)
      t == cmd.command_type
  IN  /\ t \in {"kAllocMatrixZeroed", "kAllocMatrixUndefined", "kDeallocMatrix"}
           => IsBuffer(cmd.arg1)
      /\ t = "kPropagate" =>
           /\ IsIndexOf(cmd.arg1, Size(nnet.components))
           /\ IsView(cmd.arg3) /\ IsNonNullView(cmd.arg4)
      /\ t = "kStoreStats" =>
           /\ IsIndexOf(cmd.arg1, Size(nnet.components))
           /\ IsNonNullView(cmd.arg2)
      /\ t = "kBackprop" =>
           /\ IsIndexOf(cmd.arg1, Size(nnet.nodes))
           /\ IsView(cmd.arg3) /\ IsView(cmd.arg4)
           /\ IsNonNullView(cmd.arg5) /\ IsView(cmd.arg6)
      /\ t \in {"kMatrixCopy", "kMatrixAdd"} =>
           IsNonNullView(cmd.arg1) /\ IsNonNullView(cmd.arg2)
      /\ t \in {"kAddRows", "kCopyRows"} =>
           /\ IsNonNullView(cmd.arg1) /\ IsNonNullView(cmd.arg2)
           /\ IsIndexOf(cmd.arg3, Size(computation.indexes))
      /\ t \in {"kAddRowsMulti", "kCopyRowsMulti",
                "kAddToRowsMulti", "kCopyToRowsMulti"} =>
           /\ IsNonNullView(cmd.arg1)
           /\ IsIndexOf(cmd.arg2, Size(computation.indexes_multi))
      /\ t = "kAddRowRanges" =>
           /\ IsNonNullView(cmd.arg1) /\ IsNonNullView(cmd.arg2)
           /\ IsIndexOf(cmd.arg3, Size(computation.indexes_ranges))

\* C15: in a program the bounds/shape check accepts, every operand of every
\* instruction is in range: buffers, views, and the auxiliary tables, the
\* precomputed-indexes table of Propagate and Backprop included, whose index
\* is non-negative and less than the table's size.
\* (The code does not make this true: see C15_PrecomputedUpToSize.)
C15_OperandsInRange ==
  Passed("CheckComputationIndexes") =>
    \A i \in 0..(Size(computation.commands) - 1) :
      /\ OperandsInRange(i)
      /\ CommandAt(i).command_type \in {"kPropagate", "kBackprop"} =>
           IsIndexOf(CommandAt(i).arg2,
                     computation.component_precomputed_indexes_size)

\* What the code does guarantee of C15: the same, but a precomputed-indexes
\* index may equal the size of its table (lines 675 and 718).
C15_PrecomputedUpToSize ==
  Passed("CheckComputationIndexes") =>
    \A i \in 0..(Size(computation.commands) - 1) :
      /\ OperandsInRange(i)
      /\ CommandAt(i).command_type \in {"kPropagate", "kBackprop"} =>
           IsIndexOf(CommandAt(i).arg2,
                     computation.component_precomputed_indexes_size + 1)

\* the bounds check accepted a Propagate whose precomputed-indexes index is
\* the size of the table
C15_Witness ==
  /\ Passed("CheckComputationIndexes")
  /\ \E i \in Positions({"kPropagate"}) :
       CommandAt(i).arg2 = computation.component_precomputed_indexes_size

\* command i uses one view as input and output where that is not supported
InPlaceUnsupported(i) ==
  LET cmd == CommandAt(i)
      t == cmd.command_type
  IN  \/ /\ t = "kPropagate" /\ cmd.arg3 = cmd.arg4
         /\ "kPropagateInPlace" \notin PropagateFlags(i)
      \/ /\ t = "kBackprop" /\ cmd.arg5 = cmd.arg6
         /\ "kBackpropInPlace" \notin BackpropFlags(i)
      \/ /\ t \in {"kMatrixCopy", "kMatrixAdd", "kAddRows", "kCopyRows"}
         /\ cmd.arg1 = cmd.arg2
      \/ /\ t \in {"kAddRowsMulti", "kCopyRowsMulti",
                   "kAddToRowsMulti", "kCopyToRowsMulti"}
         /\ cmd.arg1 \in Destinations(PairsOf(i))

InPlaceMessages ==
  {"In-place propagation not supported for this component",
   "In-place backprop used where not supported.",
   "Adding/copying to self",
   "Copying to self in add-rows/copy-rows command.",
   "Copying from self in *-multi command."}

\* C16: the bounds check rejects an instruction that uses one view as input
\* and output unless that is supported: Propagate with in-view = out-view
\* without accepts-in-place-propagate, Backprop with out-deriv-view =
\* in-deriv-view without accepts-in-place-backprop, Copy, Add and the
\* gather-rows instructions with dest = src, and a *-multi instruction whose
\* pair list names its own view; and it reports in-place use only of such
\* an instruction.
C16_InPlace ==
  /\ Passed("CheckComputationIndexes") =>
       \A i \in 0..(Size(computation.commands) - 1) :
         OperandsInRange(i) => ~InPlaceUnsupported(i)
  /\ (Rejected("CheckComputationIndexes") /\ err.msg \in InPlaceMessages) =>
       InPlaceUnsupported(err.at)

\* the bounds check rejected, as in place, a Backprop whose component does
\* not accept in-place backprop
C16_Witness ==
  /\ Rejected("CheckComputationIndexes")
  /\ err.msg = "In-place backprop used where not supported."
  /\ CommandAt(err.at).arg5 = CommandAt(err.at).arg6


\* an input buffer that no instruction accesses
UnusedInputs ==
  {m \in Buffers : History(m).is_input /\ History(m).accesses = <<>>}

\* C20: over any sequence of Check() calls of one process the unused-input
\* warning is logged at most once: the warned flag, once set, is never
\* reset, and it is set exactly when the warning has been logged, so later
\* unused inputs, of the same or of a later program, log nothing; and an
\* input buffer with an empty history is never what the lifecycle check
\* reports as never accessed.
C20_WarnsOnce ==
  /\ [](/\ process.warnings <= 1
        /\ computation_checker_warned_unused_input <=> process.warnings = 1
        /\ Passed("a_.Init") =>
             \A m \in UnusedInputs :
               /\ AllocationMsg(History(m)) # "Matrix is never accessed."
               /\ DeallocationMsg(History(m)) # "Matrix is never accessed."
        /\ (Passed("a_.Init") /\ pc = "CheckComputationMatrixAccesses") =>
             (CheckComputationMatrixAccesses(
                a_, computation_checker_warned_unused_input).msg =
                  "Matrix is never accessed."
                => \E m \in Buffers :
                     ~History(m).is_input /\ History(m).accesses = <<>>))
  /\ [][computation_checker_warned_unused_input =>
          computation_checker_warned_unused_input']_vars

\* the second checker of a process is about to run the lifecycle check, on
\* a program with two unused inputs, after the warning has been logged
C20_Witness ==
  /\ process.checkers = 2
  /\ pc = "CheckComputationMatrixAccesses"
  /\ computation_checker_warned_unused_input
  /\ process.warnings = 1
  /\ Cardinality(UnusedInputs) = 2


\* the node's component of Backprop i has the learnable-state capability
IsUpdatableBackprop(i) ==
  /\ CommandAt(i).command_type = "kBackprop"
  /\ "kUpdatableComponent" \in BackpropFlags(i)

\* C22: after classification an instruction's has_side_effects is true if
\* and only if the instruction is a Backprop whose node's component has the
\* learnable-state (updatable) capability; it is false for every other
\* instruction, including every StoreStats.
C22_SideEffects ==
  AnalysisBuilt =>
    /\ \A i \in Positions({"kBackprop"}) :
         Attr(i).has_side_effects <=> "kUpdatableComponent" \in BackpropFlags(i)
    /\ \A i \in 0..(Size(computation.commands) - 1) :
         CommandAt(i).command_type # "kBackprop" => ~Attr(i).has_side_effects
    /\ \A i \in Positions({"kStoreStats"}) : ~Attr(i).has_side_effects

\* a Backprop on an updatable component has been classified as
\* side-effecting
C22_Witness ==
  /\ AnalysisBuilt
  /\ \E i \in Positions({"kBackprop"}) :
       /\ IsUpdatableBackprop(i)
       /\ Attr(i).has_side_effects

\* a StoreStats on a component that stores statistics has been classified,
\* and is not side-effecting
C22_StoreStatsClassified ==
  /\ AnalysisBuilt
  /\ \E i \in Positions({"kStoreStats"}) :
       /\ "kStoresStats" \in PropagateFlags(i)
       /\ ~Attr(i).has_side_effects


\* command i is a Backprop of a component node whose in-deriv-view is the
\* null view and whose component is not updatable: it computes nothing
BackpropWithoutEffect(i) ==
  /\ CommandAt(i).command_type = "kBackprop"
  /\ CommandAt(i).arg1 \in 0..(NumNodes(nnet) - 1)
  /\ IsComponentNode(nnet, CommandAt(i).arg1)
  /\ CommandAt(i).arg6 = 0
  /\ "kUpdatableComponent" \notin BackpropFlags(i)

\* C24: the bounds check rejects every Backprop whose in-deriv-view is the
\* null view (0) and whose node's component lacks the updatable capability,
\* whatever other capability flags that component has: no program with
\* such an instruction passes the bounds check.
\* (The code does not make this true: see C24_NoEffectWithoutFlags.)
C24_NoEffect ==
  Passed("CheckComputationIndexes") =>
    \A i \in 0..(Size(computation.commands) - 1) : ~BackpropWithoutEffect(i)

\* What the code does guarantee: the test of line 732 is
\* `properties && kUpdatableComponent`, true of every component with any
\* capability flag at all, so the Backprop without effect is rejected only
\* when its component has no capability flag, and the message is raised
\* only for such a Backprop.
C24_NoEffectWithoutFlags ==
  /\ Passed("CheckComputationIndexes") =>
       \A i \in 0..(Size(computation.commands) - 1) :
         BackpropWithoutEffect(i) => BackpropFlags(i) # {}
  /\ (Rejected("CheckComputationIndexes") /\
      err.msg = "Backprop is done but has no effect.") =>
       /\ BackpropWithoutEffect(err.at)
       /\ BackpropFlags(err.at) = {}

\* the bounds check rejected a Backprop with a null in-deriv-view as having
\* no effect
C24_Witness ==
  /\ Rejected("CheckComputationIndexes")
  /\ err.msg = "Backprop is done but has no effect."
  /\ BackpropWithoutEffect(err.at)


\* the instruction indexes of a history, in the history's order
CommandIndexes(accesses) ==
  [k \in 1..Len(accesses) |-> accesses[k].command_index]

\* a history is chronological: strictly increasing instruction indexes of
\* instructions of the program, so its first element is the earliest and
\* its last the latest touch
Chronological(accesses) ==
  /\ StrictlyIncreasing(CommandIndexes(accesses))
  /\ \A k \in 1..Len(accesses) :
       /\ accesses[k].command_index \in 0..(Size(computation.commands) - 1)
       /\ accesses[1].command_index <= accesses[k].command_index
       /\ accesses[k].command_index <= Back(accesses).command_index

\* instruction i appears in no history
InNoHistory(i) ==
  /\ \A v \in Variables : AccessesAt(Kinds(v), i) = {}
  /\ \A m \in Buffers : AccessesAt(History(m).accesses, i) = {}

\* instruction i appears in the history `accesses` once, as a Write
OnceAsWrite(accesses, i) ==
  /\ Cardinality(AccessesAt(accesses, i)) = 1
  /\ \A k \in AccessesAt(accesses, i) : accesses[k].access_type = "kWriteAccess"

\* C25: in every analysis result built by the pipeline each per-variable
\* and each per-buffer history is strictly increasing in instruction index
\* (at most one Access per instruction, first element the earliest touch,
\* last element the latest); an Allocate-undefined and a Deallocate appear
\* in no history, and an Allocate-zeroed appears as a Write, at the
\* allocation index, in the history of its buffer and of each of its
\* buffer's variables, and in no other history.
C25_Chronological ==
  AnalysisBuilt =>
    /\ \A v \in Variables : Chronological(Kinds(v))
    /\ \A m \in Buffers : Chronological(History(m).accesses)
    /\ \A i \in Positions({"kAllocMatrixUndefined", "kDeallocMatrix"}) :
         InNoHistory(i)
    /\ \A i \in Positions({"kAllocMatrixZeroed"}) :
         /\ \A m \in Buffers :
              IF m = CommandAt(i).arg1
                THEN OnceAsWrite(History(m).accesses, i)
                ELSE AccessesAt(History(m).accesses, i) = {}
         /\ \A v \in Variables :
              IF v \in BufferVariables(a_.variables, CommandAt(i).arg1)
                THEN OnceAsWrite(Kinds(v), i)
                ELSE AccessesAt(Kinds(v), i) = {}

\* a buffer has been zero-filled, touched by a later instruction and
\* deallocated: its history starts with the Write of the allocation and
\* has no Access of the deallocation
C25_Witness ==
  /\ AnalysisBuilt
  /\ \E m \in Buffers :
       /\ History(m).allocate_command # -1
       /\ History(m).deallocate_command # -1
       /\ CommandAt(History(m).allocate_command).command_type =
            "kAllocMatrixZeroed"
       /\ Len(History(m).accesses) >= 2
       /\ History(m).accesses[1] =
            Access(History(m).allocate_command, "kWriteAccess")
       /\ History(m).deallocate_command \notin AccessIndexes(m)
       /\ \E v \in BufferVariables(a_.variables, m) : Len(Kinds(v)) >= 2


\* the analysis of a second run: Analyzer::Init on a fresh Analyzer object
\* and the program as it is
SecondAnalysis == AnalyzerInit(NewAnalyzer, nnet, computation)

\* the message Check() ends with ("" when it returns) on a program whose
\* analysis is an, in a process whose warned-once flag is `warned`
MessageAfterInit(an, rewrite, warned) ==
  IF an.failed # "" THEN an.failed
  ELSE IF CheckComputationOrder(computation) # ""
    THEN CheckComputationOrder(computation)
  ELSE IF CheckComputationMatrixAccesses(an, warned).msg # ""
    THEN CheckComputationMatrixAccesses(an, warned).msg
  ELSE IF CheckComputationUndefined(an) # ""
    THEN CheckComputationUndefined(an)
  ELSE IF rewrite THEN CheckComputationRewrite(an)
  ELSE ""

Verdict(rewrite, warned) ==
  IF CheckComputationIndexes(nnet, computation).msg # ""
    THEN CheckComputationIndexes(nnet, computation).msg
    ELSE MessageAfterInit(SecondAnalysis, rewrite, warned)

C21_RejectedAfterWarning ==
  /\ Finished /\ ~Accepted
  /\ AnalysisBuilt
  /\ process.checkers = 2
  /\ process.warned_before
  /\ UnusedInputs # {}


\* instruction i is the first of the program that touches variable v
FirstTouch(v, i) ==
  /\ v \in Read(i) \cup Written(i)
  /\ \A j \in 0..(i - 1) : v \notin Read(j) \cup Written(j)

\* instruction i accumulates into variable v
AccumulatesInto(i, v) ==
  /\ CommandAt(i).command_type = "kMatrixAdd"
  /\ v \in VariablesOf(CommandAt(i).arg1)

\* instruction i copies into some rows only of variable v
WritesSomeRowsOf(i, v) ==
  /\ CommandAt(i).command_type = "kMatrixCopy"
  /\ ~SpansRows(CommandAt(i).arg1)
  /\ v \in VariablesOf(CommandAt(i).arg1)

\* a variable of a non-input buffer whose first touch is an accumulate or
\* a write through a partial-row view (no zero-filling allocation before)
UsesUndefined ==
  \E v \in Variables, i \in 0..(Size(computation.commands) - 1) :
    /\ ~OwnerIsInput(v)
    /\ FirstTouch(v, i)
    /\ AccumulatesInto(i, v) \/ WritesSomeRowsOf(i, v)

\* the undefined-use check has been executed
UndefinedChecked ==
  Passed("CheckComputationUndefined") \/ Rejected("CheckComputationUndefined")

\* C23: in every program Check() accepts, with or without the rewrite
\* check, every variable of a non-input buffer has a non-empty history
\* whose first access is a pure Write; so a program in which the first touch
\* of such a variable is an accumulate, or a write through a partial-row
\* view after an undefined allocation, is not accepted, and if it gets as
\* far as the undefined-use check that check rejects it.
C23_FirstWrite ==
  /\ Accepted =>
       \A v \in Variables :
         ~OwnerIsInput(v) =>
           /\ Kinds(v) # <<>>
           /\ Kinds(v)[1].access_type = "kWriteAccess"
  /\ (AnalysisBuilt /\ UsesUndefined) =>
       /\ ~Accepted
       /\ UndefinedChecked =>
            /\ Rejected("CheckComputationUndefined")
            /\ err.msg \in {"Variable is read before it is written to",
                            "Variable is never used."}

\* Check() accepted a program that fills its output buffer column by
\* column: both variables of the buffer start with a pure Write, of
\* different instructions
C23_Witness ==
  /\ Accepted
  /\ \E v, w \in Variables :
       /\ ~OwnerIsInput(v) /\ ~OwnerIsInput(w)
       /\ Kinds(v)[1].access_type = "kWriteAccess"
       /\ Kinds(w)[1].access_type = "kWriteAccess"
       /\ Kinds(v)[1].command_index # Kinds(w)[1].command_index

\* the undefined-use check rejected a program whose first touch of an
\* undefined buffer is an accumulate
C23_RejectedAccumulate ==
  /\ Rejected("CheckComputationUndefined")
  /\ err.msg = "Variable is read before it is written to"
  /\ \E v \in Variables, i \in 0..(Size(computation.commands) - 1) :
       ~OwnerIsInput(v) /\ FirstTouch(v, i) /\ AccumulatesInto(i, v)

\* the undefined-use check rejected a program whose first touch of an
\* undefined buffer is a write through a partial-row view
C23_RejectedSomeRows ==
  /\ Rejected("CheckComputationUndefined")
  /\ err.msg = "Variable is read before it is written to"
  /\ \E v \in Variables, i \in 0..(Size(computation.commands) - 1) :
       ~OwnerIsInput(v) /\ FirstTouch(v, i) /\ WritesSomeRowsOf(i, v)

\* Check() accepted a program that zero-fills its output buffer and then
\* accumulates into it or writes its first row
C23_AcceptedAfterZeroing ==
  /\ Accepted
  /\ \E v \in Variables, i \in 0..(Size(computation.commands) - 1) :
       /\ ~OwnerIsInput(v)
       /\ AccumulatesInto(i, v) \/ WritesSomeRowsOf(i, v)

=============================================================================
